---------------------------- MODULE Spec2Model ----------------------------
(***************************************************************************)
(* Model of the surf rating engine of swell-forecast (src/lib/rating.ts)   *)
(* and of the values it is handed.                                         *)
(*                                                                         *)
(* Number representation.  The engine works on JavaScript numbers.  The    *)
(* model keeps every quantity exact:                                       *)
(*   - bearings are integers counting HALF degrees (Deg(k) = 2k), so that  *)
(*     the midpoint span/2 of a swell window is an integer as well;        *)
(*   - hs and tide are integers counting 0.1 m, tp counts 0.1 s and wind   *)
(*     counts 0.1 m/s;                                                     *)
(*   - weights are integers counting 0.01;                                 *)
(*   - scores are exact rationals [n, d] in lowest terms (d > 0), so that  *)
(*     two scores are equal as records iff they are equal as numbers;      *)
(*   - Math.log is a fixed-point series (unit 1e-5) and Math.exp followed  *)
(*     by Math.round is its monotone inverse.                              *)
(* An optional value (a `?:` field, `undefined`, `null`) is a sequence of  *)
(* length 0 or 1: << >> is absent, <<v>> is the value v.                   *)
(*                                                                         *)
(* The forecast endpoint (app/api/forecast/route.ts) uses three more       *)
(* variables: req holds the query parameters of a request, upstream what   *)
(* the two Open-Meteo endpoints answer, and calls logs what the handler    *)
(* called, in order: the upstream requests and the evaluateRating calls    *)
(* with their arguments.  A text is a sequence of tokens, each a separator *)
(* (",", ":", " ") or a word without separators.                           *)
(*                                                                         *)
(* The RadarCard component (app/components/RadarCard.tsx) has its state    *)
(* variables selectedSpot, data, idx, loading and error, and effects, the  *)
(* runs of its forecast effect in order, each with the spot it asked for,  *)
(* its `cancelled` flag and whether its request is still pending.          *)
(***************************************************************************)
EXTENDS Integers, Sequences, FiniteSets, TLC

VARIABLES x, weights, comps, op, ret, req, upstream, calls,
          selectedSpot, data, idx, loading, error, effects

\* The state of the RadarCard component.
card == <<selectedSpot, data, idx, loading, error, effects>>

vars == <<x, weights, comps, op, ret, req, upstream, calls, card>>

\* No RadarCard is mounted: its state holds the useState defaults.
Unmounted ==
    /\ selectedSpot = "trigg"
    /\ data = << >>
    /\ idx = 0
    /\ loading = TRUE
    /\ error = << >>
    /\ effects = << >>

(***************************************************************************)
(* Exact arithmetic                                                        *)
(***************************************************************************)
Abs(a) == IF a < 0 THEN -a ELSE a

Max(a, b) == IF a >= b THEN a ELSE b

Min(a, b) == IF a <= b THEN a ELSE b

RECURSIVE GCD(_, _)
GCD(a, b) == IF b = 0 THEN a ELSE GCD(b, a % b)

\* The rational n/d (d # 0) in lowest terms with a positive denominator.
Rat(n, d) ==
    LET s == IF d < 0 THEN -1 ELSE 1
        g == GCD(Abs(n), Abs(d))
    IN  [n |-> (s * n) \div g, d |-> (s * d) \div g]

Zero == [n |-> 0, d |-> 1]

One == [n |-> 1, d |-> 1]

FromInt(k) == [n |-> k, d |-> 1]

RatAdd(a, b) == Rat(a.n * b.d + b.n * a.d, a.d * b.d)

RatSub(a, b) == Rat(a.n * b.d - b.n * a.d, a.d * b.d)

RatMul(a, b) == Rat(a.n * b.n, a.d * b.d)

RatDiv(a, b) == Rat(a.n * b.d, a.d * b.n)

RatLeq(a, b) == a.n * b.d <= b.n * a.d

RatLt(a, b) == a.n * b.d < b.n * a.d

RatGeq(a, b) == RatLeq(b, a)

\* JavaScript's % : the remainder takes the sign of the dividend.
JsRem(a, m) == IF a >= 0 THEN a % m ELSE -((-a) % m)

\* k degrees in the model's half-degree unit.
Deg(k) == 2 * k

(***************************************************************************)
(* Optional values: `v == null`, `v ?? d`, `r.f` of an optional field.     *)
(***************************************************************************)
IsNull(o) == o = << >>

Coalesce(o, dflt) == IF o = << >> THEN dflt ELSE o[1]

Field(r, f) == IF f \in DOMAIN r THEN <<r[f]>> ELSE << >>

\* `const u = v; return F(u)`: v is computed once, before F uses it.
Bind(v, F(_)) == CHOOSE r \in {F(u) : u \in {v}} : TRUE

(***************************************************************************)
(* rating.ts: helpers                                                      *)
(***************************************************************************)
\* Variant of clamp01 that keeps the upper bound only (Math.min(1, x)).
clamp01Upper(r) == IF r.n > r.d THEN [n |-> 1, d |-> 1] ELSE r

clamp01(r) == IF RatLt(r, Zero) THEN Zero ELSE IF RatLt(One, r) THEN One ELSE r

lerp(a, b, t) == RatAdd(a, RatMul(RatSub(b, a), t))

\* Variant of angDiff that reduces with a single % 360 (negative bearings
\* keep their sign).
angDiffSingleRem(a, b) ==
    LET na == JsRem(a, Deg(360))
        nb == JsRem(b, Deg(360))
        d  == Abs(na - nb)
    IN  Min(d, Deg(360) - d)

angDiff(a, b) ==
    LET na == JsRem(JsRem(a, Deg(360)) + Deg(360), Deg(360))
        nb == JsRem(JsRem(b, Deg(360)) + Deg(360), Deg(360))
        d  == Abs(na - nb)
    IN  Min(d, Deg(360) - d)

\* Variant of inDirWindow that tests a wrapping window with && instead of ||.
inDirWindowNoWrap(v, min, max) ==
    v >= min /\ v <= max

inDirWindow(v, min, max) ==
    IF min <= max THEN v >= min /\ v <= max ELSE v >= min \/ v <= max


(***************************************************************************)
(* Program constants, in the model's units                                 *)
(***************************************************************************)
\* windMs / 18: the wind speed (0.1 m/s) at which speedPenalty reaches 0.
KillSpeed == 180

\* Size caps per break type (0.1 m): beach 2.5 m, point 4 m, reef 3 m.
BeachCap == 25

PointCap == 40

ReefCap == 30

\* x.spot.minPeriod ?? 7 and x.spot.idealPeriod ?? 13 (0.1 s).
DefaultMinPeriod == 70

DefaultIdealPeriod == 130

\* eps = 1e-6 is 1 / EpsDen.
EpsDen == 1000000

ComponentIds == <<"wind", "dir", "period", "size", "tide">>

Labels == <<"Wind", "Direction", "Period", "Size", "Tide">>

(***************************************************************************)
(* rating.ts: axis scoring                                                 *)
(***************************************************************************)
\* Variant of windQuality whose angle ramp starts at 0 instead of 30 degrees.
windQualityNoDeadZone(windMs, windDir, coastBearing) ==
    LET offshoreDir  == JsRem(coastBearing + Deg(180), Deg(360))
        offAngle     == angDiff(windDir, offshoreDir)
        angleScore   == clamp01(Rat(offAngle, Deg(180)))
        speedPenalty == RatSub(One, clamp01(Rat(windMs, KillSpeed)))
    IN  clamp01(RatMul(angleScore, speedPenalty))

windQuality(windMs, windDir, coastBearing) ==
    LET offshoreDir  == JsRem(coastBearing + Deg(180), Deg(360))
        offAngle     == angDiff(windDir, offshoreDir)
        angleScore   == clamp01(Rat(offAngle - Deg(30), Deg(150)))
        speedPenalty == RatSub(One, clamp01(Rat(windMs, KillSpeed)))
    IN  clamp01(RatMul(angleScore, speedPenalty))

directionQuality(dp, min, max) ==
    LET inside == inDirWindow(dp, min, max)
        span   == JsRem(max - min + Deg(360), Deg(360))
        half   == span \div 2
        center == JsRem(min + half, Deg(360))
        diff   == angDiff(dp, center)
        denom  == IF inside THEN Deg(60) ELSE Deg(120)
    IN  clamp01(RatSub(One, Rat(diff, denom)))

\* Variant of periodQuality that guards the span with `|| 1` instead of
\* Math.max(..., 1): only a zero span is replaced.
periodQualityOrOne(tp, minP, idealP) ==
    LET range == IF idealP - minP # 0 THEN idealP - minP ELSE 10
    IN  clamp01(Rat(tp - minP, range))

periodQuality(tp, minP, idealP) ==
    LET range == Max(idealP - minP, 10)
    IN  clamp01(Rat(tp - minP, range))

sizeQuality(hs, breakType) ==
    LET cap == IF breakType = "beach" THEN BeachCap
               ELSE IF breakType = "point" THEN PointCap ELSE ReefCap
    IN  clamp01(Rat(hs, Max(cap, 1)))

\* Variant of tideQuality that requires idealTide as well before it scores.
tideQualityNeedsIdeal(tide, spot) ==
    LET minTide == Field(spot, "minTide")
        maxTide == Field(spot, "maxTide")
    IN  IF IsNull(tide) \/ IsNull(minTide) \/ IsNull(maxTide) \/ IsNull(Field(spot, "idealTide"))
        THEN One
        ELSE IF tide[1] < minTide[1] \/ tide[1] > maxTide[1] THEN Zero
        ELSE One

tideQuality(tide, spot) ==
    LET minTide == Field(spot, "minTide")
        maxTide == Field(spot, "maxTide")
    IN  IF IsNull(tide) \/ IsNull(minTide) \/ IsNull(maxTide) THEN One
        ELSE IF tide[1] < minTide[1] \/ tide[1] > maxTide[1] THEN Zero
        ELSE LET width == maxTide[1] - minTide[1]
                 range == IF width # 0 THEN width ELSE 1
                 ideal == Coalesce(
                              IF IsNull(Field(spot, "idealTide")) THEN << >>
                              ELSE <<FromInt(spot.idealTide)>>,
                              lerp(FromInt(minTide[1]), FromInt(maxTide[1]), Rat(1, 2)))
                 tnorm == RatDiv(RatSub(FromInt(tide[1]), ideal), Rat(range, 2))
             IN  clamp01(RatSub(One, RatMul(tnorm, tnorm)))

(***************************************************************************)
(* rating.ts: reasons                                                      *)
(***************************************************************************)
\* Variant of reasonsFromComponents whose direction test has no else branch.
reasonsFromComponentsDirOptional(cs) ==
    LET wind   == IF RatGeq(cs.wind, Rat(6, 10)) THEN <<"offshore or light winds">>
                  ELSE IF RatLeq(cs.wind, Rat(2, 10)) THEN <<"onshore/strong winds">>
                  ELSE << >>
        dir    == IF RatGeq(cs.dir, Rat(6, 10)) THEN <<"favourable swell direction">>
                  ELSE IF RatLeq(cs.dir, Rat(2, 10)) THEN <<"suboptimal swell direction">>
                  ELSE << >>
        period == IF RatGeq(cs.period, Rat(6, 10)) THEN <<"good period">>
                  ELSE IF RatLeq(cs.period, Rat(2, 10)) THEN <<"short/weak period">>
                  ELSE << >>
        size   == IF RatGeq(cs.size, Rat(8, 10)) THEN <<"solid size">>
                  ELSE IF RatLeq(cs.size, Rat(2, 10)) THEN <<"small surf">>
                  ELSE << >>
        tide   == IF cs.tide = Zero THEN <<"tide out of window">> ELSE << >>
    IN  wind \o dir \o period \o size \o tide

\* Variant of reasonsFromComponents with strict comparisons (> and <).
reasonsFromComponentsStrict(cs) ==
    LET wind   == IF RatLt(Rat(6, 10), cs.wind) THEN <<"offshore or light winds">>
                  ELSE IF RatLt(cs.wind, Rat(2, 10)) THEN <<"onshore/strong winds">>
                  ELSE << >>
        dir    == IF RatLt(Rat(6, 10), cs.dir) THEN <<"favourable swell direction">>
                  ELSE <<"suboptimal swell direction">>
        period == IF RatLt(Rat(6, 10), cs.period) THEN <<"good period">>
                  ELSE IF RatLt(cs.period, Rat(2, 10)) THEN <<"short/weak period">>
                  ELSE << >>
        size   == IF RatLt(Rat(8, 10), cs.size) THEN <<"solid size">>
                  ELSE IF RatLt(cs.size, Rat(2, 10)) THEN <<"small surf">>
                  ELSE << >>
        tide   == IF cs.tide = Zero THEN <<"tide out of window">> ELSE << >>
    IN  wind \o dir \o period \o size \o tide

reasonsFromComponents(cs) ==
    LET wind   == IF RatGeq(cs.wind, Rat(6, 10)) THEN <<"offshore or light winds">>
                  ELSE IF RatLeq(cs.wind, Rat(2, 10)) THEN <<"onshore/strong winds">>
                  ELSE << >>
        dir    == IF RatGeq(cs.dir, Rat(6, 10)) THEN <<"favourable swell direction">>
                  ELSE <<"suboptimal swell direction">>
        period == IF RatGeq(cs.period, Rat(6, 10)) THEN <<"good period">>
                  ELSE IF RatLeq(cs.period, Rat(2, 10)) THEN <<"short/weak period">>
                  ELSE << >>
        size   == IF RatGeq(cs.size, Rat(8, 10)) THEN <<"solid size">>
                  ELSE IF RatLeq(cs.size, Rat(2, 10)) THEN <<"small surf">>
                  ELSE << >>
        tide   == IF cs.tide = Zero THEN <<"tide out of window">> ELSE << >>
    IN  wind \o dir \o period \o size \o tide

(***************************************************************************)
(* rating.ts: componentScores                                              *)
(***************************************************************************)
componentScores(in) ==
    LET minP   == Coalesce(Field(in.spot, "minPeriod"), DefaultMinPeriod)
        idealP == Coalesce(Field(in.spot, "idealPeriod"), DefaultIdealPeriod)
        wind   == windQuality(in.wind, in.windDir, in.spot.coastBearing)
        dir    == directionQuality(in.dp, in.spot.swellDirMin, in.spot.swellDirMax)
        period == periodQuality(in.tp, minP, idealP)
        size   == sizeQuality(in.hs, in.spot.breakType)
        tide   == tideQuality(Field(in, "tide"), in.spot)
    IN  << [id |-> "wind",   label |-> "Wind",      score |-> clamp01(wind)],
           [id |-> "dir",    label |-> "Direction", score |-> clamp01(dir)],
           [id |-> "period", label |-> "Period",    score |-> clamp01(period)],
           [id |-> "size",   label |-> "Size",      score |-> clamp01(size)],
           [id |-> "tide",   label |-> "Tide",      score |-> clamp01(tide)] >>

(***************************************************************************)
(* Math.log and Math.exp in fixed point (unit 1e-5).                       *)
(*   ln(n/d) = -(e ln 2 + 2 atanh(u)),  u = (d - m)/(d + m),  m = n 2^e,   *)
(* with e the number of doublings that bring n into (d/2, d]; atanh is its *)
(* series up to u^9 (u < 1/3).  The result is within 1e-4 of the real      *)
(* logarithm and depends only on the value n/d, not on its representation. *)
(***************************************************************************)
RECURSIVE Doublings(_, _)
Doublings(n, d) == IF 2 * n > d THEN 0 ELSE 1 + Doublings(2 * n, d)

RECURSIVE Pow10(_)
Pow10(e) == IF e = 0 THEN 1 ELSE 10 * Pow10(e - 1)

RECURSIVE Pow2(_)
Pow2(e) == IF e = 0 THEN 1 ELSE 2 * Pow2(e - 1)

\* floor(a * 10^digits / b) by long division (0 <= a < b), free of overflow.
RECURSIVE FixDiv(_, _, _)
FixDiv(a, b, digits) ==
    IF digits = 0 THEN 0
    ELSE LET q == (a * 10) \div b
             r == (a * 10) % b
         IN  q * Pow10(digits - 1) + FixDiv(r, b, digits - 1)

Ln(r) ==
    LET e  == Doublings(r.n, r.d)
        m  == r.n * Pow2(e)
        u  == FixDiv(r.d - m, r.d + m, 5)
        u2 == (u * u) \div 100000
        u3 == (u * u2) \div 100000
        u5 == (u3 * u2) \div 100000
        u7 == (u5 * u2) \div 100000
        u9 == (u7 * u2) \div 100000
    IN  -(e * 69315 + 2 * (u + u3 \div 3 + u5 \div 5 + u7 \div 7 + u9 \div 9))

\* LnThreshold[k] = ln((k - 0.5) / 100): Math.round(g * 100) >= k iff ln g >= it.
LnThreshold == [k \in 1..100 |-> Ln(Rat(2 * k - 1, 200))]

\* The largest k in lo..hi with ln((k - 0.5) / 100) <= num / den (lo if none).
RECURSIVE Bisect(_, _, _, _)
Bisect(num, den, lo, hi) ==
    IF lo >= hi THEN lo
    ELSE LET mid == (lo + hi + 1) \div 2
         IN  IF den * LnThreshold[mid] <= num THEN Bisect(num, den, mid, hi)
             ELSE Bisect(num, den, lo, mid - 1)

\* Variant of RoundExp100 that forgets to normalise the weights by their sum.
RoundExp100Unnormalised(num, den) == Bisect(num, 1, 0, 100)

\* Math.round(Math.exp(num / den) * 100) for num <= 0 < den (num in 1e-5 units):
\* exp is increasing, so the rounded value is the number of thresholds passed.
RoundExp100(num, den) == Bisect(num, den, 0, 100)

(***************************************************************************)
(* rating.ts: aggregateScore                                               *)
(***************************************************************************)
\* A weight that is not a number (a profile parsed from JSON may hold any
\* value): Math.max(0, v) is NaN for it.  NaNRat is the NaN a score or a
\* normalized weight becomes.
NotANumber == -1000000

NaNRat == [n |-> 0, d |-> 0]

IsNaN(r) == r.d = 0

\* Variant of MaxEps with the floor at 1e-2 instead of 1e-6.
MaxEpsCoarse(r) ==
    IF r.n <= 0 \/ (r.d - 1) \div r.n >= 100 THEN Rat(1, 100) ELSE r

\* Math.max(r, eps) with eps = 1 / EpsDen; r < eps iff r.n * EpsDen < r.d.
MaxEps(r) ==
    IF r.n <= 0 \/ (r.d - 1) \div r.n >= EpsDen THEN Rat(1, EpsDen) ELSE r

RECURSIVE SumSeq(_)
SumSeq(s) == IF s = << >> THEN 0 ELSE Head(s) + SumSeq(Tail(s))

\* Variant of rawWeight that does not floor negative weights at 0.
rawWeightNoFloor(w, id) == Coalesce(Field(w, id), 0)

\* Variant of rawWeight that gives a missing axis the weight 1 (100 x 0.01).
rawWeightDefaultOne(w, id) == Max(0, Coalesce(Field(w, id), 100))

\* Math.max(0, weights[id] ?? 0); NaN for a value that is not a number.
rawWeight(w, id) ==
    LET v == Coalesce(Field(w, id), 0)
    IN  IF v = NotANumber THEN NotANumber ELSE Max(0, v)

\* The body of aggregateScore once a profile w is present.
geometricAggregate(components, w) ==
    LET ids   == [i \in DOMAIN components |-> components[i].id]
        raw   == [i \in DOMAIN ids |-> rawWeight(w, ids[i])]
        nan   == \E i \in DOMAIN raw : raw[i] = NotANumber
        total == IF nan THEN NotANumber ELSE SumSeq(raw)
        sum   == IF total # 0 /\ total # NotANumber THEN total ELSE 1
        logs  == [i \in DOMAIN components |-> raw[i] * Ln(MaxEps(components[i].score))]
    IN  [method     |-> "geometric",
         score_0_10 |-> IF nan THEN NaNRat ELSE Rat(RoundExp100(SumSeq(logs), sum), 10),
         weights    |-> [id \in {ids[i] : i \in DOMAIN ids} |->
                            LET i == CHOOSE j \in DOMAIN ids :
                                         /\ ids[j] = id
                                         /\ \A k \in DOMAIN ids : ids[k] = id => k <= j
                            IN  IF raw[i] = NotANumber THEN NaNRat ELSE Rat(raw[i], sum)]]

\* Variant of aggregateScore that treats a missing profile as an empty one.
aggregateScoreDefaulted(components, w) ==
    <<geometricAggregate(components, Coalesce(w, << >>))>>

aggregateScore(components, w) ==
    IF IsNull(w) THEN << >> ELSE <<geometricAggregate(components, w[1])>>

(***************************************************************************)
(* rating.ts: evaluateRating                                               *)
(***************************************************************************)
evaluateRating(in, w) ==
    LET cs   == componentScores(in)
        dict == [id \in {cs[i].id : i \in DOMAIN cs} |->
                    (CHOOSE c \in {cs[i] : i \in DOMAIN cs} : c.id = id).score]
    IN  [components |-> cs,
         aggregate  |-> aggregateScore(cs, w),
         reasons    |-> reasonsFromComponents(dict)]

(***************************************************************************)
(* rating.ts: scoreForecast (legacy convenience)                           *)
(***************************************************************************)
\* Variant of LegacyWeights in which the tide weight has drifted to 0.1.
LegacyWeightsDrifted == [wind |-> 35, dir |-> 35, period |-> 20, size |-> 10, tide |-> 10]

LegacyWeights == [wind |-> 35, dir |-> 35, period |-> 20, size |-> 10, tide |-> 60]

scoreForecast(in) ==
    LET r == evaluateRating(in, <<LegacyWeights>>)
    IN  [score      |-> IF IsNull(r.aggregate) THEN Zero ELSE r.aggregate[1].score_0_10,
         components |-> [k \in {r.components[i].id \o "Score" : i \in DOMAIN r.components} |->
                            (CHOOSE c \in {r.components[i] : i \in DOMAIN r.components} :
                                 c.id \o "Score" = k).score],
         reasons    |-> r.reasons]

(***************************************************************************)
(* spots.ts: the configured spots                                          *)
(***************************************************************************)
spots ==
    << [id |-> "cottesloe", coastBearing |-> Deg(270), breakType |-> "beach",
        swellDirMin |-> Deg(190), swellDirMax |-> Deg(240),
        minPeriod |-> 80, idealPeriod |-> 130],
       [id |-> "huzzas", coastBearing |-> Deg(270), breakType |-> "reef",
        swellDirMin |-> Deg(240), swellDirMax |-> Deg(300),
        minTide |-> 0, idealTide |-> 5, maxTide |-> 15,
        minPeriod |-> 80, idealPeriod |-> 140],
       [id |-> "trigg", coastBearing |-> Deg(270), breakType |-> "reef",
        swellDirMin |-> Deg(200), swellDirMax |-> Deg(245),
        minPeriod |-> 90, idealPeriod |-> 140],
       [id |-> "redgate", coastBearing |-> Deg(240), breakType |-> "beach",
        swellDirMin |-> Deg(210), swellDirMax |-> Deg(260),
        minPeriod |-> 90, idealPeriod |-> 150] >>

(***************************************************************************)
(* The inputs the engine is exercised on                                   *)
(***************************************************************************)
\* Bearings run from -90 to 30 * MaxBearing degrees in steps of 30.
MaxBearing == 15

\* Wind speeds run from -6 to 6 * MaxWind m/s in steps of 6.
MaxWind == 4

\* Wave heights run from -0.5 to MaxHs / 2 m in steps of 0.5.
MaxHs == 9

\* Periods run from -1.5 to 1.5 * MaxTp s in steps of 1.5.
MaxTp == 11

\* Tide levels run from -0.3 to MaxTide / 10 m in steps of 0.1.
MaxTide == 17

\* Profiles beyond the configured ones: a window that wraps through north
\* with default periods, a zero-width window with a zero period span and a
\* zero-width tide window, out-of-range coast bearings, a period span below
\* one second, a reversed period span and an ideal tide on the window edge.
OtherSpots ==
    { [id |-> "wrap", coastBearing |-> Deg(0), breakType |-> "point",
       swellDirMin |-> Deg(350), swellDirMax |-> Deg(20),
       minTide |-> 0, maxTide |-> 10],
      [id |-> "pin", coastBearing |-> Deg(90), breakType |-> "reef",
       swellDirMin |-> Deg(100), swellDirMax |-> Deg(100),
       minTide |-> 5, maxTide |-> 5, minPeriod |-> 100, idealPeriod |-> 100],
      [id |-> "far", coastBearing |-> Deg(450), breakType |-> "beach",
       swellDirMin |-> Deg(200), swellDirMax |-> Deg(245),
       minPeriod |-> 80, idealPeriod |-> 85],
      [id |-> "back", coastBearing |-> Deg(-90), breakType |-> "point",
       swellDirMin |-> Deg(10), swellDirMax |-> Deg(300),
       minTide |-> -5, idealTide |-> 10, maxTide |-> 10,
       minPeriod |-> 120, idealPeriod |-> 90] }

Spots == {spots[i] : i \in DOMAIN spots} \cup OtherSpots

Bearings == {Deg(30 * k) : k \in -3..MaxBearing}

SwellDirs ==
    Bearings \cup {s.swellDirMin : s \in Spots} \cup {s.swellDirMax : s \in Spots}
             \cup {Deg(215), Deg(575)}

WindSpeeds == {60 * k : k \in -1..MaxWind} \cup {KillSpeed - 1, KillSpeed + 1}

Heights == {5 * k : k \in -1..MaxHs}

Periods == {15 * k : k \in -1..MaxTp}

TideLevels == -3..MaxTide

\* The sample of the round-trip example: 1.5 m at 13 s from 215, 3 m/s from 90.
Sample(s) ==
    [hs |-> 15, tp |-> 130, dp |-> Deg(215), wind |-> 30, windDir |-> Deg(90), spot |-> s]

\* Every record differs from the sample on one axis' observations.
Inputs ==
    UNION { {[Sample(s) EXCEPT !.wind = w, !.windDir = b] : w \in WindSpeeds, b \in Bearings}
            \cup {[Sample(s) EXCEPT !.dp = b] : b \in SwellDirs}
            \cup {[Sample(s) EXCEPT !.hs = h] : h \in Heights}
            \cup {[Sample(s) EXCEPT !.tp = t] : t \in Periods}
            \cup {[tide |-> t] @@ Sample(s) : t \in TideLevels}
            : s \in Spots }

\* undefined, {}, the legacy profile, one axis only, nothing positive, partial.
WeightProfiles ==
    { << >>, << << >> >>, <<LegacyWeights>>, <<[wind |-> 100]>>,
      <<[wind |-> -50, dir |-> 0]>>, <<[dir |-> 35, size |-> 0, tide |-> 60]>> }

(***************************************************************************)
(* The engine as a state machine: a caller holds an input record and an    *)
(* optional weight profile and calls the public functions; op names the    *)
(* last call and ret holds what it returned.                               *)
(***************************************************************************)
Init ==
    /\ x \in Inputs
    /\ weights \in WeightProfiles
    /\ comps = << >>
    /\ op = "none"
    /\ ret = << >>
    /\ req = << >>
    /\ upstream = << >>
    /\ calls = << >>
    /\ Unmounted

ComponentScores ==
    /\ op' = "componentScores"
    /\ ret' = componentScores(x)
    /\ UNCHANGED <<x, weights, comps, req, upstream, calls, card>>

EvaluateRating ==
    /\ op' = "evaluateRating"
    /\ ret' = evaluateRating(x, weights)
    /\ UNCHANGED <<x, weights, comps, req, upstream, calls, card>>

ScoreForecast ==
    /\ op' = "scoreForecast"
    /\ ret' = scoreForecast(x)
    /\ UNCHANGED <<x, weights, comps, req, upstream, calls, card>>

Next == ComponentScores \/ EvaluateRating \/ ScoreForecast

Spec == Init /\ [][Next]_vars

(***************************************************************************)
(* The aggregator called on its own: a caller holds five component scores  *)
(* and an optional weight profile and calls aggregateScore.                *)
(***************************************************************************)
\* Component scores run over k / ScoreSteps, k in 0..ScoreSteps.
ScoreSteps == 2

\* Weights run over -0.5, 0 and 0.5 * k, k in 1..MaxWeight.
MaxWeight == 2

ScoreGrid == {Rat(k, ScoreSteps) : k \in 0..ScoreSteps}

WeightValues == {-50, 0} \cup {50 * k : k \in 1..MaxWeight}

\* The axes a profile may name; the others are missing from every profile.
WeightedAxes == {"wind", "dir", "tide"}

\* Scores of the axes a profile may name run over the grid; the scores of
\* the other axes, which no profile weighs, take the extremes 0 and 1.
ComponentVectors ==
    { [i \in 1..5 |-> [id |-> ComponentIds[i], label |-> Labels[i], score |-> v[i]]] :
          v \in {u \in [1..5 -> ScoreGrid] :
                    \A i \in 1..5 : ComponentIds[i] \notin WeightedAxes => u[i] \in {Zero, One}} }

AggProfiles ==
    {<< >>} \cup {<<w>> : w \in UNION {[S -> WeightValues] : S \in SUBSET WeightedAxes}}

InitAgg ==
    /\ x = << >>
    /\ weights \in AggProfiles
    /\ comps \in ComponentVectors
    /\ op = "none"
    /\ ret = << >>
    /\ req = << >>
    /\ upstream = << >>
    /\ calls = << >>
    /\ Unmounted

AggregateScore ==
    /\ op' = "aggregateScore"
    /\ ret' = aggregateScore(comps, weights)
    /\ UNCHANGED <<x, weights, comps, req, upstream, calls, card>>

NextAgg == AggregateScore

SpecAgg == InitAgg /\ [][NextAgg]_vars

(***************************************************************************)
(* Properties of the engine (checked under Spec)                           *)
(***************************************************************************)
AxisIds == {"wind", "dir", "period", "size", "tide"}

InUnit(r) == r.d > 0 /\ 0 <= r.n /\ r.n <= r.d

\* Shortest distance between two bearings on the circle of 360 degrees.
CircDist(a, b) ==
    LET d == (a - b) % Deg(360)
    IN  IF d <= Deg(360) - d THEN d ELSE Deg(360) - d

OutOfRange(b) == b < 0 \/ b >= Deg(360)

\* |a - b| <= 0.01
Near(a, b) == RatLeq(RatSub(a, b), Rat(1, 100)) /\ RatLeq(RatSub(b, a), Rat(1, 100))

\* C1: for every input record (negative hs, tp or wind and bearings outside
\* [0,360) included) and every spot profile, componentScores returns exactly
\* five components with the ids wind, dir, period, size, tide in that order,
\* and every score lies in [0,1].
C1_ClampInvariant ==
    op = "componentScores" =>
        /\ Len(ret) = 5
        /\ [i \in 1..5 |-> ret[i].id] = <<"wind", "dir", "period", "size", "tide">>
        /\ \A i \in 1..5 : InUnit(ret[i].score)

\* componentScores has run on a negative wind speed from an out-of-range
\* bearing at a spot whose swell window the swell misses by more than 120.
C1_Witness ==
    /\ op = "componentScores"
    /\ x.wind < 0
    /\ OutOfRange(x.windDir)
    /\ ret[2].score = Zero

\* C2: evaluateRating without a weight profile returns aggregate = null
\* whatever the component scores are, and with any profile object (even an
\* empty one) returns a non-null aggregate whose method is "geometric".
C2_AggregateAbsence ==
    op = "evaluateRating" =>
        /\ IsNull(weights) => IsNull(ret.aggregate)
        /\ ~IsNull(weights) =>
               /\ Len(ret.aggregate) = 1
               /\ ret.aggregate[1].method = "geometric"

\* evaluateRating has run with the empty profile {} and produced an aggregate.
C2_Witness ==
    /\ op = "evaluateRating"
    /\ weights = << << >> >>
    /\ Len(ret.aggregate) = 1

\* C4: for every coastBearing, a wind of speed 0 coming from the offshore
\* bearing (coastBearing + 180) mod 360 gets the wind component score 1.
C4_OffshoreCalmScoresOne ==
    ( /\ op = "componentScores"
      /\ x.wind = 0
      /\ x.windDir % Deg(360) = (x.spot.coastBearing + Deg(180)) % Deg(360) )
    => ret[1].score = One

C6_LegacyWrapper ==
    op = "scoreForecast" =>
        LET e == evaluateRating(x, <<[wind |-> 35, dir |-> 35, period |-> 20,
                                      size |-> 10, tide |-> 60]>>)
        IN  /\ Len(e.aggregate) = 1
            /\ ret.score = e.aggregate[1].score_0_10
            /\ DOMAIN ret.components =
                   {"windScore", "dirScore", "periodScore", "sizeScore", "tideScore"}
            /\ ret.components.windScore = e.components[1].score
            /\ ret.components.dirScore = e.components[2].score
            /\ ret.components.periodScore = e.components[3].score
            /\ ret.components.sizeScore = e.components[4].score
            /\ ret.components.tideScore = e.components[5].score
            /\ ret.reasons = e.reasons

\* scoreForecast has run while the caller holds another profile, on a tide
\* inside the window, and returned a score strictly between 0 and 10.
C6_Witness ==
    /\ op = "scoreForecast"
    /\ weights = <<[wind |-> 100]>>
    /\ "tide" \in DOMAIN x
    /\ RatLt(Zero, ret.components.tideScore)
    /\ RatLt(ret.components.tideScore, One)
    /\ RatLt(Zero, ret.score)
    /\ RatLt(ret.score, Rat(10, 1))

\* C7: for the spot {coastBearing:270, beach, swellDirMin:190,
\* swellDirMax:240, minPeriod:8, idealPeriod:13} and the sample {hs:1.5,
\* tp:13, dp:215, wind:3, windDir:90}, componentScores gives wind at or near
\* 1, dir = 1, period = 1, size = 0.6 and tide = 1, each within 0.01.
C7_RoundTripExample ==
    (op = "componentScores" /\ x = Sample(spots[1])) =>
        /\ Near(ret[1].score, One)
        /\ Near(ret[2].score, One)
        /\ Near(ret[3].score, One)
        /\ Near(ret[4].score, Rat(6, 10))
        /\ Near(ret[5].score, One)

(***************************************************************************)
(* Properties of the aggregator (checked under SpecAgg)                    *)
(***************************************************************************)
Called == op = "aggregateScore" /\ ~IsNull(weights)

\* The weight a profile supplies for an axis (0 when missing), and its floor.
Given(id) == IF id \in DOMAIN weights[1] THEN weights[1][id] ELSE 0

Floored(id) == IF Given(id) > 0 THEN Given(id) ELSE 0

FlooredTotal ==
    Floored("wind") + Floored("dir") + Floored("period") + Floored("size") + Floored("tide")

\* Math.round(100 r) of an exact rational r >= 0: floor(100 r + 1/2).
Round100(r) == (200 * r.n + r.d) \div (2 * r.d)

\* C3 as stated: whenever some axis has weight > 0 and score 0, the
\* aggregate score is 0.0 at one decimal, whatever the other axes score.
C3_GeometricFloor ==
    Called =>
        \A i \in 1..5 :
            (comps[i].score = Zero /\ Given(comps[i].id) > 0)
                => ret[1].score_0_10 = Zero

\* C3 amended: whenever an axis with score 0 carries at least 40% of the
\* total floored weight, the aggregate score is 0.0 at one decimal, whatever
\* the other axes score; weights {wind:1} with wind score 0 is such a case.
C3_GeometricFloorShare ==
    Called =>
        \A i \in 1..5 :
            ( /\ comps[i].score = Zero
              /\ Floored(comps[i].id) > 0
              /\ 5 * Floored(comps[i].id) >= 2 * FlooredTotal )
                => ret[1].score_0_10 = Zero

\* aggregateScore has run on wind score 0 and four scores of 1, with wind
\* carrying at least 40% of the weight but not all of it, and returned 0.0.
C3_Witness ==
    /\ Called
    /\ comps[1].score = Zero
    /\ \A i \in 2..5 : comps[i].score = One
    /\ 5 * Floored("wind") >= 2 * FlooredTotal
    /\ Floored("wind") < FlooredTotal
    /\ ret[1].score_0_10 = Zero

\* C8: with a profile whose five weights are all zero, negative or missing,
\* aggregateScore still produces an aggregate: all five normalized weights
\* are 0 and score_0_10 is 10.0 for every combination of component scores.
C8_AllZeroWeights ==
    (Called /\ FlooredTotal = 0) =>
        /\ Len(ret) = 1
        /\ DOMAIN ret[1].weights = AxisIds
        /\ \A id \in AxisIds : ret[1].weights[id] = Zero
        /\ ret[1].score_0_10 = Rat(10, 1)

\* aggregateScore has run on a profile holding a negative and a zero weight
\* and nothing positive, on component scores that include a 0.
C8_Witness ==
    /\ Called
    /\ FlooredTotal = 0
    /\ \E a, b \in DOMAIN weights[1] : weights[1][a] < 0 /\ weights[1][b] = 0
    /\ comps[1].score = Zero
    /\ ret[1].score_0_10 = Rat(10, 1)

\* C9: the reported weights are keyed by exactly the five axis ids; each is
\* max(0, supplied weight or 0) divided by the sum of these floored values,
\* so it lies in [0,1]; negative and missing weights report as 0; and the
\* reported weights sum to 1 whenever some supplied weight is positive.
C9_ReportedWeights ==
    Called =>
        LET rep == ret[1].weights
        IN  /\ DOMAIN rep = AxisIds
            /\ \A id \in AxisIds : InUnit(rep[id])
            /\ \A id \in AxisIds : Given(id) <= 0 => rep[id] = Zero
            /\ FlooredTotal > 0 =>
                   /\ \A id \in AxisIds : rep[id].n * FlooredTotal = Floored(id) * rep[id].d
                   /\ RatAdd(rep.wind, RatAdd(rep.dir, RatAdd(rep.period,
                          RatAdd(rep.size, rep.tide)))) = One

\* aggregateScore has run on a profile with two different positive weights,
\* a negative one and two missing ones.
C9_Witness ==
    /\ Called
    /\ weights[1] = [wind |-> 50, dir |-> 100, tide |-> -50]
    /\ ret[1].weights.dir = Rat(2, 3)
    /\ ret[1].weights.tide = Zero

MaxAngle == 16

Angles == {Deg(45 * k) : k \in -8..MaxAngle} \cup {Deg(10), Deg(340), Deg(350)}

InitAngles ==
    /\ x \in [v : Angles, min : Angles, max : Angles]
    /\ weights = << >>
    /\ comps = << >>
    /\ op = "none"
    /\ ret = << >>
    /\ req = << >>
    /\ upstream = << >>
    /\ calls = << >>
    /\ Unmounted

InDirWindow ==
    /\ op' = "inDirWindow"
    /\ ret' = inDirWindow(x.v, x.min, x.max)
    /\ UNCHANGED <<x, weights, comps, req, upstream, calls, card>>

AngDiff ==
    /\ op' = "angDiff"
    /\ ret' = angDiff(x.v, x.min)
    /\ UNCHANGED <<x, weights, comps, req, upstream, calls, card>>

NextAngles == InDirWindow \/ AngDiff

SpecAngles == InitAngles /\ [][NextAngles]_vars

(***************************************************************************)
(* Properties of the bearing helpers (checked under SpecAngles)            *)
(***************************************************************************)
InCircle(b) == 0 <= b /\ b < Deg(360)

\* The clockwise arc from a to b, in half degrees (0 when a = b mod 360).
Clockwise(a, b) == (b - a) % Deg(360)

\* C12: for degree values v, min, max in [0,360), inDirWindow is true iff v
\* lies on the clockwise arc from min to max, that is, iff going clockwise
\* from min one meets v no later than max; (350, 340, 10) is inside and
\* (180, 340, 10) is outside.
C12_CircularWindow ==
    (op = "inDirWindow" /\ InCircle(x.v) /\ InCircle(x.min) /\ InCircle(x.max)) =>
        /\ ret = (Clockwise(x.min, x.v) <= Clockwise(x.min, x.max))
        /\ (x.v = Deg(350) /\ x.min = Deg(340) /\ x.max = Deg(10)) => ret = TRUE
        /\ (x.v = Deg(180) /\ x.min = Deg(340) /\ x.max = Deg(10)) => ret = FALSE

\* inDirWindow has run on the wrapping window [340, 10] with v = 350 inside.
C12_Witness ==
    /\ op = "inDirWindow"
    /\ x.v = Deg(350)
    /\ x.min = Deg(340)
    /\ x.max = Deg(10)
    /\ ret = TRUE

\* C13: for all bearings a and b (out-of-range ones included) angDiff(a, b)
\* equals angDiff(b, a), lies in [0,180], is 0 iff a and b coincide mod 360,
\* and is 180 when b is (a + 180) mod 360.
C13_AngularDistance ==
    op = "angDiff" =>
        /\ ret = angDiff(x.min, x.v)
        /\ 0 <= ret /\ ret <= Deg(180)
        /\ (ret = 0) <=> ((x.v - x.min) % Deg(360) = 0)
        /\ x.min = (x.v + Deg(180)) % Deg(360) => ret = Deg(180)

\* angDiff has run on a negative bearing and its antipode and returned 180.
C13_Witness ==
    /\ op = "angDiff"
    /\ x.v < 0
    /\ x.min = (x.v + Deg(180)) % Deg(360)
    /\ ret = Deg(180)

(***************************************************************************)
(* Properties of the direction score (checked under Spec)                  *)
(***************************************************************************)
Scores(cs) == [i \in DOMAIN cs |-> cs[i].score]

\* C14: when a spot's swellDirMin equals its swellDirMax every swell
\* direction counts as inside the window, so the direction score is the
\* 60 degree falloff from the window centre, max(0, 1 - distance / 60).
C14_FullCircleWindow ==
    (op = "componentScores" /\ x.spot.swellDirMin = x.spot.swellDirMax) =>
        ret[2].score =
            clamp01(RatSub(One, Rat(CircDist(x.dp, x.spot.swellDirMin), Deg(60))))

\* C15: replacing dp, windDir or coastBearing by the same value plus or
\* minus 360 leaves all five component scores unchanged.
C15_DegreesNormalised ==
    op = "componentScores" =>
        \A turn \in {-Deg(360), Deg(360)} :
            /\ Scores(componentScores([x EXCEPT !.dp = @ + turn])) = Scores(ret)
            /\ Scores(componentScores([x EXCEPT !.windDir = @ + turn])) = Scores(ret)
            /\ Scores(componentScores([x EXCEPT !.spot.coastBearing = @ + turn])) = Scores(ret)

(***************************************************************************)
(* tideQuality called on its own: a caller holds an optional tide level    *)
(* and a spot whose three tide fields are each present or missing.         *)
(***************************************************************************)
\* Tide marks of a spot run over 0.4 * k m, k in 0..MaxMark.
MaxMark == 3

\* Tide observations run from -0.2 to MaxLevel / 10 m in steps of 0.1.
MaxLevel == 14

TideMarks == {4 * k : k \in 0..MaxMark}

TideFields == {"minTide", "idealTide", "maxTide"}

TideSpots == UNION {[F -> TideMarks] : F \in SUBSET TideFields}

TideObservations == {<< >>} \cup {<<t>> : t \in -2..MaxLevel}

InitTide ==
    /\ x \in [tide : TideObservations, spot : TideSpots]
    /\ weights = << >>
    /\ comps = << >>
    /\ op = "none"
    /\ ret = << >>
    /\ req = << >>
    /\ upstream = << >>
    /\ calls = << >>
    /\ Unmounted

TideQuality ==
    /\ op' = "tideQuality"
    /\ ret' = tideQuality(x.tide, x.spot)
    /\ UNCHANGED <<x, weights, comps, req, upstream, calls, card>>

NextTide == TideQuality

SpecTide == InitTide /\ [][NextTide]_vars

(***************************************************************************)
(* Properties of the tide score                                            *)
(***************************************************************************)
\* C19 (under SpecTide): the tide score is 1 whenever the tide observation
\* is absent or the spot lacks minTide or maxTide, whatever the other fields
\* are, and is 0 whenever all three are present and the tide is below
\* minTide or above maxTide.
C19_TideNeutralOrOut ==
    op = "tideQuality" =>
        /\ (x.tide = << >> \/ "minTide" \notin DOMAIN x.spot \/ "maxTide" \notin DOMAIN x.spot)
               => ret = One
        /\ ( /\ x.tide # << >>
             /\ "minTide" \in DOMAIN x.spot
             /\ "maxTide" \in DOMAIN x.spot
             /\ (x.tide[1] < x.spot.minTide \/ x.tide[1] > x.spot.maxTide) )
               => ret = Zero

\* tideQuality has returned 1 for a tide far above the maxTide of a spot
\* that has an idealTide but no minTide.
C19_Witness ==
    /\ op = "tideQuality"
    /\ x.tide # << >>
    /\ DOMAIN x.spot = {"idealTide", "maxTide"}
    /\ x.tide[1] > x.spot.maxTide
    /\ ret = One

\* C20 (under Spec): for a spot with minTide < maxTide and an idealTide
\* inside the window (the midpoint when absent), the tide score is 1 at
\* tide = idealTide and exactly 0 at tide = minTide and at tide = maxTide.
C20_ParabolaReachesZero ==
    ( /\ op = "componentScores"
      /\ "tide" \in DOMAIN x
      /\ "minTide" \in DOMAIN x.spot
      /\ "maxTide" \in DOMAIN x.spot
      /\ x.spot.minTide < x.spot.maxTide
      /\ ("idealTide" \in DOMAIN x.spot =>
              x.spot.minTide <= x.spot.idealTide /\ x.spot.idealTide <= x.spot.maxTide) )
    => /\ x.tide \in {x.spot.minTide, x.spot.maxTide} => ret[5].score = Zero
       /\ ("idealTide" \in DOMAIN x.spot /\ x.tide = x.spot.idealTide) => ret[5].score = One
       /\ ("idealTide" \notin DOMAIN x.spot /\ 2 * x.tide = x.spot.minTide + x.spot.maxTide)
              => ret[5].score = One

(***************************************************************************)
(* route.ts: text helpers (String.split, String.trim, Number, JSON.parse)  *)
(***************************************************************************)
\* s.split(sep): the pieces of s between the occurrences of sep.
RECURSIVE Split(_, _)
Split(s, sep) ==
    IF \A i \in DOMAIN s : s[i] # sep THEN <<s>>
    ELSE LET i == CHOOSE k \in DOMAIN s : s[k] = sep /\ \A m \in 1..(k - 1) : s[m] # sep
         IN  <<SubSeq(s, 1, i - 1)>> \o Split(SubSeq(s, i + 1, Len(s)), sep)

\* s.trim(): s without its leading and trailing blanks.
RECURSIVE Trim(_)
Trim(s) ==
    IF s = << >> THEN s
    ELSE IF Head(s) = " " THEN Trim(Tail(s))
    ELSE IF s[Len(s)] = " " THEN Trim(SubSeq(s, 1, Len(s) - 1))
    ELSE s

\* The string a token sequence spells.
RECURSIVE Join(_)
Join(s) == IF s = << >> THEN "" ELSE Head(s) \o Join(Tail(s))

\* Number(text) on the value texts of the modelled requests, in units of
\* 0.01; NaN and the infinities are the values Number.isFinite rejects.
NumberOf ==
    [t \in {"", "0", "0.5", "1", "-1", "1.5", "abc", "Infinity", "NaN"} |->
        CASE t = ""         -> [finite |-> TRUE, v |-> 0]
          [] t = "0"        -> [finite |-> TRUE, v |-> 0]
          [] t = "0.5"      -> [finite |-> TRUE, v |-> 50]
          [] t = "1"        -> [finite |-> TRUE, v |-> 100]
          [] t = "-1"       -> [finite |-> TRUE, v |-> -100]
          [] t = "1.5"      -> [finite |-> TRUE, v |-> 150]
          [] t = "abc"      -> [finite |-> FALSE, v |-> "NaN"]
          [] t = "Infinity" -> [finite |-> FALSE, v |-> "Infinity"]
          [] t = "NaN"      -> [finite |-> FALSE, v |-> "NaN"]]

\* JSON.parse on the weights_json texts of the modelled requests: the parsed
\* value (an object of numbers in units of 0.01, or null), or a SyntaxError.
\* A member that is not numeric ("strong") is held as NotANumber.
JsonParse ==
    [t \in {"{\"wind\":0.5,\"dir\":1}", "{\"foo\":1,\"wind\":0.5}", "{}", "null", "{wind:1",
            "{\"wind\":\"strong\"}"} |->
        CASE t = "{\"wind\":0.5,\"dir\":1}" -> [ok |-> TRUE, value |-> <<[wind |-> 50, dir |-> 100]>>]
          [] t = "{\"foo\":1,\"wind\":0.5}" -> [ok |-> TRUE, value |-> <<[foo |-> 100, wind |-> 50]>>]
          [] t = "{}"                       -> [ok |-> TRUE, value |-> << << >> >>]
          [] t = "null"                     -> [ok |-> TRUE, value |-> << >>]
          [] t = "{\"wind\":\"strong\"}"     -> [ok |-> TRUE, value |-> <<[wind |-> NotANumber]>>]
          [] t = "{wind:1"                  -> [ok |-> FALSE, value |-> << >>]]

(***************************************************************************)
(* route.ts: parseWeights                                                  *)
(***************************************************************************)
\* Variant of csvEntry that accepts any key.
csvEntryAnyKey(out, part) ==
    LET fields == [i \in DOMAIN Split(part, ":") |-> Join(Trim(Split(part, ":")[i]))]
        kRaw   == fields[1]
    IN  IF kRaw = "" \/ Len(fields) < 2 \/ fields[2] = "" THEN out
        ELSE IF ~NumberOf[fields[2]].finite THEN out
        ELSE (kRaw :> NumberOf[fields[2]].v) @@ out

\* One turn of the loop over csv.split(","): out after the part is handled.
csvEntry(out, part) ==
    LET fields == [i \in DOMAIN Split(part, ":") |-> Join(Trim(Split(part, ":")[i]))]
        kRaw   == fields[1]
    IN  IF kRaw = "" \/ Len(fields) < 2 \/ fields[2] = "" THEN out
        ELSE IF ~NumberOf[fields[2]].finite THEN out
        ELSE IF kRaw \in {"wind", "dir", "period", "size", "tide"}
             THEN (kRaw :> NumberOf[fields[2]].v) @@ out
             ELSE out

RECURSIVE csvLoop(_, _)
csvLoop(out, parts) ==
    IF parts = << >> THEN out ELSE csvLoop(csvEntry(out, Head(parts)), Tail(parts))

\* The optional profile parsed from the query parameters q.
parseWeights(q) ==
    LET jsonStr == Field(q, "weights_json")
        csv     == Field(q, "weights")
    IN  IF ~IsNull(jsonStr) /\ jsonStr[1] # "" /\ JsonParse[jsonStr[1]].ok
        THEN JsonParse[jsonStr[1]].value
        ELSE IF IsNull(csv) \/ csv[1] = << >> THEN << >>
        ELSE <<csvLoop(<< >>, Split(csv[1], ","))>>

(***************************************************************************)
(* openmeteo.ts: fetchMarine                                               *)
(* An upstream answer is [kind |-> "ok", hourly |-> h], [kind |-> "error", *)
(* status |-> n] (res.ok is false) or [kind |-> "reject"] with an optional *)
(* message (fetch itself throws).  A series is an optional sequence of optional    *)
(* numbers; arrays are indexed from 1.                                     *)
(***************************************************************************)
StatusText == [n \in {404, 429, 500, 503} |->
                  CASE n = 404 -> "404" [] n = 429 -> "429" [] n = 500 -> "500" [] n = 503 -> "503"]

\* j(arr, i): arr[i] if the array exists, is long enough and holds a value.
j(arr, i) ==
    IF ~IsNull(arr) /\ Len(arr[1]) >= i /\ ~IsNull(arr[1][i]) THEN arr[1][i] ELSE << >>

\* The outcome of `await fetch(url)` followed by the res.ok test.
\* << >> when the answer is OK, else <<e.message>> of the error thrown, where
\* e.message is itself optional (a rejection need not carry a message).
fetchFailure(answer) ==
    IF answer.kind = "reject" THEN <<Field(answer, "message")>>
    ELSE IF answer.kind = "error"
         THEN << <<"Open-Meteo error " \o StatusText[answer.status]>> >>
    ELSE << >>

\* windIndex.get(ts): the entry set last for ts, if any.
windAt(w, ts) ==
    LET hits == IF "time" \in DOMAIN w THEN {i \in DOMAIN w.time : w.time[i] = ts} ELSE {}
    IN  IF hits = {} THEN << >>
        ELSE LET i == CHOOSE k \in hits : \A m \in hits : m <= k
             IN  <<[windMs  |-> j(Field(w, "wind_speed_10m"), i),
                    windDir |-> j(Field(w, "wind_direction_10m"), i)]>>

mergeRows(m, w) ==
    [i \in DOMAIN m.time |->
        LET wind == windAt(w, m.time[i])
        IN  [ts       |-> m.time[i],
             hs       |-> j(Field(m, "wave_height"), i),
             tp       |-> j(Field(m, "wave_period"), i),
             dp       |-> j(Field(m, "wave_direction"), i),
             swellHs  |-> j(Field(m, "swell_wave_height"), i),
             swellTp  |-> j(Field(m, "swell_wave_period"), i),
             swellDp  |-> j(Field(m, "swell_wave_direction"), i),
             windMs   |-> IF IsNull(wind) THEN << >> ELSE wind[1].windMs,
             windDir  |-> IF IsNull(wind) THEN << >> ELSE wind[1].windDir,
             waterC   |-> j(Field(m, "sea_surface_temperature"), i),
             seaLevel |-> j(Field(m, "sea_level_height_msl"), i)]]

\* Variant of fetchMarine that goes on without wind when the weather request
\* fails.
fetchMarineLenient(up) ==
    IF ~IsNull(fetchFailure(up.marine))
    THEN [threw |-> TRUE, message |-> fetchFailure(up.marine)[1], requests |-> <<"marine">>]
    ELSE IF ~IsNull(fetchFailure(up.weather))
    THEN [threw |-> FALSE, rows |-> mergeRows(up.marine.hourly, << >>),
          requests |-> <<"marine", "weather">>]
    ELSE [threw |-> FALSE, rows |-> mergeRows(up.marine.hourly, up.weather.hourly),
          requests |-> <<"marine", "weather">>]

\* fetchMarine against the upstream answers up: what it throws or returns,
\* and the requests it made.
fetchMarine(up) ==
    IF ~IsNull(fetchFailure(up.marine))
    THEN [threw |-> TRUE, message |-> fetchFailure(up.marine)[1], requests |-> <<"marine">>]
    ELSE IF ~IsNull(fetchFailure(up.weather))
    THEN [threw |-> TRUE, message |-> fetchFailure(up.weather)[1],
          requests |-> <<"marine", "weather">>]
    ELSE [threw |-> FALSE, rows |-> mergeRows(up.marine.hourly, up.weather.hourly),
          requests |-> <<"marine", "weather">>]

(***************************************************************************)
(* spots.ts: getSpot, and the fields of a spot that only the payload shows *)
(***************************************************************************)
getSpot(id) ==
    LET hits == {i \in DOMAIN spots : spots[i].id = id}
    IN  IF hits = {} THEN << >> ELSE <<spots[CHOOSE i \in hits : \A k \in hits : i <= k]>>

spotInfo ==
    [cottesloe |-> [name |-> "Cottesloe",   lat |-> "-31.994",   lon |-> "115.751"],
     huzzas    |-> [name |-> "Huzzas",      lat |-> "-33.86419", lon |-> "114.980827"],
     trigg     |-> [name |-> "Trigg Point", lat |-> "-31.866",   lon |-> "115.757"],
     redgate   |-> [name |-> "Redgate",     lat |-> "-34.045",   lon |-> "115.046"]]

(***************************************************************************)
(* route.ts: GET                                                           *)
(***************************************************************************)
\* Badge thresholds in the model's units: wind < 5 m/s, hs < 0.6 m, hs > 2.5 m.
LightWind == 50

SmallHs == 6

BigBeachHs == 25

\* hours.slice(0, 24)
SummaryHours == 24

\* Variant of toInputs that prefers the total-wave value to the swell value.
toInputsTotalFirst(pt, spot) ==
    LET tide == IF IsNull(pt.seaLevel) THEN << >> ELSE [tide |-> pt.seaLevel[1]]
    IN  tide @@ [hs      |-> Coalesce(pt.hs, Coalesce(pt.swellHs, 0)),
                 tp      |-> Coalesce(pt.tp, Coalesce(pt.swellTp, 0)),
                 dp      |-> Coalesce(pt.dp, Coalesce(pt.swellDp, 0)),
                 wind    |-> Coalesce(pt.windMs, 0),
                 windDir |-> Coalesce(pt.windDir, 0),
                 spot    |-> spot]

\* The record { hs, tp, dp, wind, windDir, tide, spot } built from a row.
toInputs(pt, spot) ==
    LET tide == IF IsNull(pt.seaLevel) THEN << >> ELSE [tide |-> pt.seaLevel[1]]
    IN  tide @@ [hs      |-> Coalesce(pt.swellHs, Coalesce(pt.hs, 0)),
                 tp      |-> Coalesce(pt.swellTp, Coalesce(pt.tp, 0)),
                 dp      |-> Coalesce(pt.swellDp, Coalesce(pt.dp, 0)),
                 wind    |-> Coalesce(pt.windMs, 0),
                 windDir |-> Coalesce(pt.windDir, 0),
                 spot    |-> spot]

\* The handler's own angDiff: no reduction of the operands before Math.abs.
badgeAngDiff(a, b) ==
    LET d == JsRem(Abs(a - b), Deg(360))
    IN  Min(d, Deg(360) - d)

badgesOf(in) ==
    LET offshoreDir == JsRem(in.spot.coastBearing + Deg(180), Deg(360))
    IN  (IF in.wind < LightWind /\ badgeAngDiff(in.windDir, offshoreDir) > Deg(90)
         THEN <<"Light/offshore">> ELSE << >>)
        \o (IF in.tp >= Coalesce(Field(in.spot, "idealPeriod"), DefaultIdealPeriod)
            THEN <<"Good period">> ELSE << >>)
        \o (IF in.hs < SmallHs THEN <<"Small">> ELSE << >>)
        \o (IF in.hs > BigBeachHs /\ in.spot.breakType = "beach"
            THEN <<"Big for beach">> ELSE << >>)

hourOf(pt, spot, w) ==
    Bind(toInputs(pt, spot), LAMBDA in :
    Bind(evaluateRating(in, w), LAMBDA rated :
        [ts         |-> pt.ts,
         raw        |-> [hs |-> in.hs, tp |-> in.tp, dp |-> in.dp, wind_ms |-> in.wind,
                         wind_dir |-> in.windDir, water_c |-> pt.waterC,
                         sea_level_m |-> pt.seaLevel],
         components |-> rated.components,
         aggregate  |-> rated.aggregate,
         reasons    |-> rated.reasons,
         badges     |-> badgesOf(in),
         source     |-> "open-meteo:marine+weather"]))

\* marine.map(...): one hour per row, in order.
RECURSIVE hoursOf(_, _, _)
hoursOf(rows, spot, w) ==
    IF rows = << >> THEN << >>
    ELSE <<hourOf(Head(rows), spot, w)>> \o hoursOf(Tail(rows), spot, w)

\* Math.min and Math.max: NaN as soon as an argument is NaN.
RatMin(a, b) == IF IsNaN(a) \/ IsNaN(b) THEN NaNRat ELSE IF RatLeq(a, b) THEN a ELSE b

RatMax(a, b) == IF IsNaN(a) \/ IsNaN(b) THEN NaNRat ELSE IF RatLeq(a, b) THEN b ELSE a

RECURSIVE RatSum(_)
RatSum(s) ==
    IF s = << >> THEN Zero ELSE Bind(RatSum(Tail(s)), LAMBDA t : RatAdd(Head(s), t))

\* reduce((m, h) => f(m, g(h)), init) over the hours hs.
RECURSIVE reduceMin(_, _)
reduceMin(m, hs) ==
    IF hs = << >> THEN m
    ELSE Bind(RatMin(m, IF IsNull(Head(hs).aggregate) THEN FromInt(10)
                        ELSE Head(hs).aggregate[1].score_0_10),
              LAMBDA m2 : reduceMin(m2, Tail(hs)))

RECURSIVE reduceMax(_, _)
reduceMax(m, hs) ==
    IF hs = << >> THEN m
    ELSE Bind(RatMax(m, IF IsNull(Head(hs).aggregate) THEN Zero
                        ELSE Head(hs).aggregate[1].score_0_10),
              LAMBDA m2 : reduceMax(m2, Tail(hs)))

\* Number(r.toFixed(3)) for r >= 0.
toFixed3(r) == Rat((2000 * r.n + r.d) \div (2 * r.d), 1000)

\* The mean score of one hour: c.reduce(...) / (c.length || 1).
fillOf(h) ==
    Bind(RatSum([k \in DOMAIN h.components |-> h.components[k].score]), LAMBDA sum :
        RatDiv(sum, FromInt(IF Len(h.components) # 0 THEN Len(h.components) ELSE 1)))

RECURSIVE fillSum(_, _)
fillSum(acc, hs) ==
    IF hs = << >> THEN acc
    ELSE Bind(fillOf(Head(hs)), LAMBDA s :
         Bind(RatAdd(acc, s), LAMBDA acc2 : fillSum(acc2, Tail(hs))))

summaryOf(hours) ==
    Bind(SubSeq(hours, 1, Min(SummaryHours, Len(hours))), LAMBDA next24 :
    Bind(fillSum(Zero, next24), LAMBDA sum :
    Bind(RatDiv(sum, FromInt(IF Len(next24) # 0 THEN Len(next24) ELSE 1)), LAMBDA mean :
        [aggregate_min       |-> reduceMin(FromInt(10), next24),
         aggregate_max       |-> reduceMax(Zero, next24),
         mean_component_fill |-> toFixed3(mean)])))

\* p.get("spot_id") || ""
spotIdOf(q) == IF IsNull(Field(q, "spot_id")) THEN "" ELSE q.spot_id

\* The log entries of the requests fetchMarine made.
requestLog(marine) == [i \in DOMAIN marine.requests |-> [to |-> marine.requests[i]]]

\* The log entries of the evaluateRating calls, one per row.
ratingLog(rows, spot, w) ==
    [i \in DOMAIN rows |-> [to |-> "evaluateRating", in |-> toInputs(rows[i], spot), w |-> w]]

badRequest(spotId) ==
    [status |-> 400, body |-> [error |-> "Unknown spot_id='" \o spotId \o "'"]]

badGateway(message) ==
    [status |-> 502, body |-> [error |-> Coalesce(message, "Failed to fetch forecast")]]

payload(spot, w, hours) ==
    [status |-> 200,
     body |-> [spot |-> [id |-> spot.id] @@ spotInfo[spot.id],
               meta |-> [timezone |-> "Australia/Perth",
                         source |-> "Open-Meteo Marine + Weather",
                         weights |-> w],
               today_summary |-> summaryOf(hours),
               hours |-> hours]]

(***************************************************************************)
(* The requests and upstream answers the endpoint is exercised on          *)
(***************************************************************************)
\* A weights text has between 1 and MaxParts comma-separated parts.
MaxParts == 2

\* The parts: plain, padded with blanks, unknown key, non-numeric values,
\* no colon, empty value, empty key, empty part, extra field, negative.
CsvParts ==
    { <<"wind", ":", "0.5">>,
      <<" ", "dir", " ", ":", " ", "1", " ">>,
      <<"foo", ":", "1">>,
      <<"tide", ":", "abc">>,
      <<"size", ":", "Infinity">>,
      <<"period">>,
      <<"wind", ":">>,
      <<":", "1">>,
      << >>,
      <<"period", ":", "1.5", ":", "0">>,
      <<"wind", ":", "-1">> }

RECURSIVE CsvTexts(_)
CsvTexts(n) ==
    IF n = 1 THEN CsvParts
    ELSE CsvTexts(n - 1) \cup {t \o <<",">> \o part : t \in CsvTexts(n - 1), part \in CsvParts}

JsonTexts == DOMAIN JsonParse \cup {""}

SpotIds == {spots[i].id : i \in DOMAIN spots} \cup {"nowhere", ""}

\* An optional query parameter: missing, or present with one of the values.
Optional(values) == {<< >>} \cup {<<v>> : v \in values}

Param(name, o) == IF o = << >> THEN << >> ELSE (name :> o[1])

\* Three hours: swell and total-wave values, then total-wave values only,
\* then neither; the sea level is known for the first hour only.
MarineFull ==
    [time                 |-> <<"T00", "T01", "T02">>,
     wave_height          |-> << <<20>>, <<10>>, << >> >>,
     wave_period          |-> << <<100>>, <<120>>, << >> >>,
     wave_direction       |-> << <<Deg(250)>>, <<Deg(230)>>, << >> >>,
     swell_wave_height    |-> << <<15>>, << >>, << >> >>,
     swell_wave_period    |-> << <<130>>, << >> >>,
     swell_wave_direction |-> << <<Deg(215)>>, << >>, << >> >>,
     sea_surface_temperature |-> << <<21>>, <<21>>, <<21>> >>,
     sea_level_height_msl |-> << <<5>> >>]

\* Two hours of total-wave values without any swell or sea-level series.
MarineBare ==
    [time           |-> <<"T00", "T01">>,
     wave_height    |-> << <<30>>, <<0>> >>,
     wave_period    |-> << <<90>>, <<0>> >>,
     wave_direction |-> << <<Deg(0)>>, <<Deg(215)>> >>]

MarineEmpty == [time |-> << >>]

\* More hours than the summary covers: total-wave values that repeat every
\* three hours, then a last-but-one hour of ideal swell and a flat last hour.
LongHours == 26

MarineLong ==
    [time           |-> [i \in 1..LongHours |-> "T" \o ToString(i)],
     wave_height    |-> [i \in 1..LongHours |->
                            <<IF i = LongHours THEN 0
                              ELSE IF i = LongHours - 1 THEN 25 ELSE 10 + 5 * (i % 3)>>],
     wave_period    |-> [i \in 1..LongHours |->
                            <<IF i = LongHours THEN 0
                              ELSE IF i = LongHours - 1 THEN 130 ELSE 100 + 10 * (i % 2)>>],
     wave_direction |-> [i \in 1..LongHours |-> <<Deg(215)>>]]

WeatherLong ==
    [time               |-> [i \in 1..LongHours |-> "T" \o ToString(i)],
     wind_speed_10m     |-> [i \in 1..LongHours |-> <<IF i = LongHours - 1 THEN 0 ELSE 60>>],
     wind_direction_10m |-> [i \in 1..LongHours |-> <<Deg(90)>>]]

\* Wind for the first two hours (the second without a direction), wind at
\* other times only, and an answer without a time series.
WeatherFull ==
    [time               |-> <<"T00", "T01">>,
     wind_speed_10m     |-> << <<30>>, <<60>> >>,
     wind_direction_10m |-> << <<Deg(270)>>, << >> >>]

WeatherShifted ==
    [time               |-> <<"T01", "T05", "T01">>,
     wind_speed_10m     |-> << <<120>>, <<30>>, << >> >>,
     wind_direction_10m |-> << <<Deg(90)>>, <<Deg(90)>>, <<Deg(180)>> >>]

WeatherBare == [wind_speed_10m |-> << <<30>> >>]

Failures ==
    {[kind |-> "error", status |-> n] : n \in {404, 500}}
        \cup {[kind |-> "reject", message |-> "fetch failed"], [kind |-> "reject"]}

MarineAnswers ==
    {[kind |-> "ok", hourly |-> h] : h \in {MarineFull, MarineBare, MarineEmpty}} \cup Failures

WeatherAnswers ==
    {[kind |-> "ok", hourly |-> h] : h \in {WeatherFull, WeatherShifted, WeatherBare}}
        \cup Failures

Healthy == [marine |-> [kind |-> "ok", hourly |-> MarineFull],
            weather |-> [kind |-> "ok", hourly |-> WeatherFull]]

\* Every weights query against a healthy upstream, and every spot id with
\* and without weights against every pair of upstream answers.
RouteCases ==
    { [q |-> Param("spot_id", <<"cottesloe">>) @@ Param("weights", csv)
                 @@ Param("weights_json", json),
       up |-> Healthy] :
          csv \in Optional(CsvTexts(MaxParts) \cup {<< >>}), json \in Optional(JsonTexts) }
    \cup
    { [q |-> Param("spot_id", id) @@ Param("weights", csv),
       up |-> [marine |-> m, weather |-> w]] :
          id \in Optional(SpotIds), csv \in {<< >>, << <<"wind", ":", "1", ",", "tide", ":", "0.5">> >>},
          m \in MarineAnswers, w \in WeatherAnswers }
    \cup
    { [q |-> Param("spot_id", <<"cottesloe">>) @@ Param("weights", csv)
                 @@ Param("weights_json", json),
       up |-> [marine |-> [kind |-> "ok", hourly |-> MarineLong],
               weather |-> [kind |-> "ok", hourly |-> WeatherLong]]] :
          csv \in {<< >>, << <<"wind", ":", "1", ",", "tide", ":", "0.5">> >>,
                   << <<"period", ":", "1">> >>},
          json \in Optional({"null", "{}"}) }

(***************************************************************************)
(* The endpoint as a state machine: a request and the upstream answers are *)
(* given; GET handles the request in one step.                             *)
(***************************************************************************)
InitRoute ==
    /\ \E c \in RouteCases : req = c.q /\ upstream = c.up
    /\ x = << >>
    /\ weights = << >>
    /\ comps = << >>
    /\ op = "none"
    /\ ret = << >>
    /\ calls = << >>
    /\ Unmounted

GET ==
    \E w \in {parseWeights(req)}, spot \in {getSpot(spotIdOf(req))} :
        /\ op' = "GET"
        /\ weights' = w
        /\ IF IsNull(spot)
           THEN /\ ret' = badRequest(spotIdOf(req))
                /\ calls' = << >>
           ELSE \E marine \in {fetchMarine(upstream)} :
                    IF marine.threw
                    THEN /\ ret' = badGateway(marine.message)
                         /\ calls' = requestLog(marine)
                    ELSE \E hours \in {hoursOf(marine.rows, spot[1], w)} :
                             /\ ret' = payload(spot[1], w, hours)
                             /\ calls' = requestLog(marine) \o ratingLog(marine.rows, spot[1], w)
        /\ UNCHANGED <<x, comps, req, upstream, card>>

NextRoute == GET

SpecRoute == InitRoute /\ [][NextRoute]_vars

(***************************************************************************)
(* Properties of the forecast endpoint (checked under SpecRoute)           *)
(***************************************************************************)
Handled == op = "GET"

KnownSpot == "spot_id" \in DOMAIN req /\ req.spot_id \in {"cottesloe", "huzzas", "trigg", "redgate"}

EngineCalls == SelectSeq(calls, LAMBDA c : c.to = "evaluateRating")

UpstreamCalls == SelectSeq(calls, LAMBDA c : c.to # "evaluateRating")

\* C16: an unknown spot_id yields status 400 with an error message and no
\* upstream request at all; with a known spot, a marine or weather request
\* that is not OK (or fails outright) yields status 502 with a non-empty
\* error message and a body holding nothing else (no hours, no summary),
\* and the engine is not called; a 200 is sent only when both answered OK.
C16_ExplicitErrors ==
    Handled =>
        /\ ~KnownSpot =>
               /\ ret.status = 400
               /\ DOMAIN ret.body = {"error"}
               /\ ret.body.error # ""
               /\ calls = << >>
        /\ (KnownSpot /\ (upstream.marine.kind # "ok" \/ upstream.weather.kind # "ok")) =>
               /\ ret.status = 502
               /\ DOMAIN ret.body = {"error"}
               /\ ret.body.error # ""
               /\ EngineCalls = << >>
        /\ ret.status = 200 =>
               KnownSpot /\ upstream.marine.kind = "ok" /\ upstream.weather.kind = "ok"

\* GET answered 502 for a known spot whose marine request succeeded with
\* rows and whose weather request came back not OK, after asking both.
C16_Witness ==
    /\ Handled
    /\ KnownSpot
    /\ upstream.marine.kind = "ok"
    /\ upstream.marine.hourly.time # << >>
    /\ upstream.weather.kind = "error"
    /\ ret.status = 502
    /\ Len(UpstreamCalls) = 2

\* C17: the engine is called once per forecast row, in order; for each of
\* height, period and direction it is handed the swell value if non-null,
\* else the total-wave value if non-null, else 0; wind speed and direction
\* are 0 when null; the tide field is present exactly when the sea level is
\* non-null; so every observation field handed over is a number.
C17_FallbackOrder ==
    (Handled /\ ret.status = 200) =>
        LET rows == fetchMarine(upstream).rows
            pick(a, b) == IF a # << >> THEN a[1] ELSE IF b # << >> THEN b[1] ELSE 0
        IN  /\ Len(EngineCalls) = Len(rows)
            /\ \A i \in DOMAIN rows :
                   LET in == EngineCalls[i].in
                       pt == rows[i]
                   IN  /\ in.hs = pick(pt.swellHs, pt.hs)
                       /\ in.tp = pick(pt.swellTp, pt.tp)
                       /\ in.dp = pick(pt.swellDp, pt.dp)
                       /\ in.wind = pick(pt.windMs, << >>)
                       /\ in.windDir = pick(pt.windDir, << >>)
                       /\ ("tide" \in DOMAIN in) <=> (pt.seaLevel # << >>)
                       /\ "tide" \in DOMAIN in => in.tide = pt.seaLevel[1]
                       /\ \A f \in DOMAIN in \ {"spot"} : in[f] \in Int

\* GET handed over a row whose swell height was null and whose total-wave
\* height (different from the first row's swell height) was used, a row with
\* neither (height 0), and a row without wind and without sea level.
C17_Witness ==
    /\ Handled
    /\ ret.status = 200
    /\ upstream.marine.hourly = MarineFull
    /\ Len(EngineCalls) = 3
    /\ EngineCalls[1].in.hs = 15
    /\ EngineCalls[2].in.hs = 10
    /\ EngineCalls[3].in.hs = 0
    /\ EngineCalls[3].in.wind = 0
    /\ "tide" \notin DOMAIN EngineCalls[3].in

\* C18: the profile parsed from the query, which is the one handed to every
\* evaluateRating call, has only keys among the five axis ids, each mapped
\* to a finite number, for the weights form and the weights_json form; with
\* neither parameter present the profile is absent.
C18_WeightsSanitised ==
    Handled =>
        /\ weights # << >> =>
               /\ DOMAIN weights[1] \subseteq {"wind", "dir", "period", "size", "tide"}
               /\ \A k \in DOMAIN weights[1] :
                      weights[1][k] \in Int /\ weights[1][k] # NotANumber
        /\ \A i \in DOMAIN EngineCalls : EngineCalls[i].w = weights
        /\ ("weights" \notin DOMAIN req /\ "weights_json" \notin DOMAIN req) => weights = << >>

(***************************************************************************)
(* Properties of the period score (checked under Spec)                     *)
(***************************************************************************)
MinPeriodOf(spot) == IF "minPeriod" \in DOMAIN spot THEN spot.minPeriod ELSE DefaultMinPeriod

IdealPeriodOf(spot) == IF "idealPeriod" \in DOMAIN spot THEN spot.idealPeriod ELSE DefaultIdealPeriod

ReasonSteps == 5

ReasonGrid == {Rat(k, ReasonSteps) : k \in 0..ReasonSteps}

InitReasons ==
    /\ x \in [wind : ReasonGrid, dir : ReasonGrid, period : ReasonGrid,
              size : ReasonGrid, tide : ReasonGrid]
    /\ weights = << >>
    /\ comps = << >>
    /\ op = "none"
    /\ ret = << >>
    /\ req = << >>
    /\ upstream = << >>
    /\ calls = << >>
    /\ Unmounted

ReasonsFromComponents ==
    /\ op' = "reasonsFromComponents"
    /\ ret' = reasonsFromComponents(x)
    /\ UNCHANGED <<x, weights, comps, req, upstream, calls, card>>

NextReasons == ReasonsFromComponents

SpecReasons == InitReasons /\ [][NextReasons]_vars

(***************************************************************************)
(* Properties of the reasons list (checked under SpecReasons)              *)
(***************************************************************************)
PositiveReasons ==
    <<"offshore or light winds", "favourable swell direction", "good period",
      "solid size", "none">>

NegativeReasons ==
    <<"onshore/strong winds", "suboptimal swell direction", "short/weak period",
      "small surf", "tide out of window">>

\* The position in the axis order wind, dir, period, size, tide of the axis
\* a reason speaks about; 0 for a text that is no reason.
AxisOfReason(r) ==
    IF \E i \in 1..5 : r \in {PositiveReasons[i], NegativeReasons[i]} /\ r # "none"
    THEN CHOOSE i \in 1..5 : r \in {PositiveReasons[i], NegativeReasons[i]}
    ELSE 0

Emits(r) == \E i \in DOMAIN ret : ret[i] = r

\* C22: for every combination of the five scores the reasons list holds at
\* most one reason per axis, in the axis order wind, dir, period, size, tide
\* (the axes of successive entries strictly increase, so the positive and the
\* negative reason of one axis never both appear), exactly one entry is a
\* direction reason, and the list has between 1 and 5 entries.
C22_ReasonsShape ==
    op = "reasonsFromComponents" =>
        /\ Len(ret) \in 1..5
        /\ \A i \in DOMAIN ret : AxisOfReason(ret[i]) \in 1..5
        /\ \A i, k \in DOMAIN ret : i < k => AxisOfReason(ret[i]) < AxisOfReason(ret[k])
        /\ Cardinality({i \in DOMAIN ret : AxisOfReason(ret[i]) = 2}) = 1

\* reasonsFromComponents has returned the one-entry list of a direction
\* score between the thresholds with every other axis silent.
C22_Witness ==
    /\ op = "reasonsFromComponents"
    /\ RatLt(Rat(2, 10), x.dir) /\ RatLt(x.dir, Rat(6, 10))
    /\ ret = <<"suboptimal swell direction">>

\* C23: thresholds are inclusive: a wind, dir or period score of exactly 0.6
\* and a size score of exactly 0.8 emit the positive reason, a wind, period
\* or size score of exactly 0.2 emits the negative reason, and a wind, period
\* or size score strictly between its two thresholds emits neither reason of
\* that axis.
C23_InclusiveThresholds ==
    op = "reasonsFromComponents" =>
        /\ \A i \in 1..4 :
               LET axis == <<"wind", "dir", "period", "size">>[i]
                   high == IF i = 4 THEN Rat(8, 10) ELSE Rat(6, 10)
               IN  /\ x[axis] = high => Emits(PositiveReasons[i])
                   /\ (i # 2 /\ x[axis] = Rat(2, 10)) => Emits(NegativeReasons[i])
                   /\ (i # 2 /\ RatLt(Rat(2, 10), x[axis]) /\ RatLt(x[axis], high)) =>
                          /\ ~Emits(PositiveReasons[i])
                          /\ ~Emits(NegativeReasons[i])

\* reasonsFromComponents has answered scores lying exactly on the thresholds:
\* wind 0.6, period 0.2, size 0.8.
C23_Witness ==
    /\ op = "reasonsFromComponents"
    /\ x.wind = Rat(6, 10) /\ x.dir = Rat(6, 10)
    /\ x.period = Rat(2, 10) /\ x.size = Rat(8, 10)
    /\ x.tide = One
    /\ ret = <<"offshore or light winds", "favourable swell direction",
               "short/weak period", "solid size">>

(***************************************************************************)
(* Properties of the direction score (checked under Spec)                  *)
(***************************************************************************)
\* The circular mid-point of a spot's swell window.
WindowCentre(spot) ==
    JsRem(spot.swellDirMin
              + JsRem(spot.swellDirMax - spot.swellDirMin + Deg(360), Deg(360)) \div 2,
          Deg(360))

InRange(a) == 0 <= a /\ a < Deg(360)

\* C24: for a fixed spot window the direction score never increases as the
\* swell direction moves away from the window centre: whenever the direction
\* scored lies no farther from the centre than another direction, it scores
\* at least as much as that one (directions in [0, 360), windows with
\* swellDirMin # swellDirMax).
C24_DirectionMonotone ==
    (/\ op = "componentScores"
     /\ InRange(x.dp)
     /\ x.spot.swellDirMin # x.spot.swellDirMax) =>
        \A dp2 \in {d \in SwellDirs : InRange(d)} :
            CircDist(x.dp, WindowCentre(x.spot)) <= CircDist(dp2, WindowCentre(x.spot)) =>
                RatGeq(ret[2].score,
                       directionQuality(dp2, x.spot.swellDirMin, x.spot.swellDirMax))

(***************************************************************************)
(* Properties of the tide reason (checked under Spec)                      *)
(***************************************************************************)
\* C25: evaluateRating emits "tide out of window" only when a tide
\* observation and the spot's minTide and maxTide are all present and the
\* tide lies below minTide or above maxTide; a tide inside the window, its
\* edges included, never produces it.
C25_TideReasonOnlyOutside ==
    (/\ op = "evaluateRating"
     /\ \E i \in DOMAIN ret.reasons : ret.reasons[i] = "tide out of window") =>
        /\ "tide" \in DOMAIN x
        /\ "minTide" \in DOMAIN x.spot
        /\ "maxTide" \in DOMAIN x.spot
        /\ (x.tide < x.spot.minTide \/ x.tide > x.spot.maxTide)

(***************************************************************************)
(* The older revision of lib/rating.ts: the additive scoreForecast with    *)
(* the tide as a multiplicative gate.                                      *)
(***************************************************************************)
\* The older angDiff takes the bearings as they are, without any modulo.
angDiffRaw(a, b) ==
    LET d == Abs(a - b)
    IN  Min(d, Deg(360) - d)

RatMax0(r) == IF RatLt(r, Zero) THEN Zero ELSE r

RatMin1(r) == IF RatLt(One, r) THEN One ELSE r

\* Math.round of a rational: the nearest integer, halves upwards.
MathRound(r) == (2 * r.n + r.d) \div (2 * r.d)

additiveScores(in) ==
    LET offshoreDir  == JsRem(in.spot.coastBearing + Deg(180), Deg(360))
        wOff         == angDiffRaw(in.windDir, offshoreDir)
        windScore    == RatMul(RatMax0(Rat(wOff - Deg(30), Deg(150))),
                               RatSub(One, RatMin1(Rat(in.wind, KillSpeed))))
        withinWindow == IF in.spot.swellDirMin <= in.spot.swellDirMax
                        THEN in.dp >= in.spot.swellDirMin /\ in.dp <= in.spot.swellDirMax
                        ELSE in.dp >= in.spot.swellDirMin \/ in.dp <= in.spot.swellDirMax
        windowCenter == JsRem(in.spot.swellDirMin
                                  + JsRem(in.spot.swellDirMax - in.spot.swellDirMin + Deg(360),
                                          Deg(360)) \div 2,
                              Deg(360))
        dirScore     == RatMax0(RatSub(One, Rat(angDiffRaw(in.dp, windowCenter),
                                                IF withinWindow THEN Deg(60) ELSE Deg(120))))
        minP         == Coalesce(Field(in.spot, "minPeriod"), DefaultMinPeriod)
        idealP       == Coalesce(Field(in.spot, "idealPeriod"), DefaultIdealPeriod)
        periodScore  == RatMax0(RatMin1(Rat(in.tp - minP, Max(idealP - minP, 10))))
        sizeCap      == IF in.spot.breakType = "beach" THEN BeachCap
                        ELSE IF in.spot.breakType = "point" THEN PointCap ELSE ReefCap
        sizeScore    == RatMax0(RatMin1(Rat(in.hs, sizeCap)))
        tideScore    ==
            IF "tide" \in DOMAIN in /\ "minTide" \in DOMAIN in.spot /\ "maxTide" \in DOMAIN in.spot
            THEN IF in.tide < in.spot.minTide \/ in.tide > in.spot.maxTide THEN Zero
                 ELSE LET width == in.spot.maxTide - in.spot.minTide
                          r     == IF width # 0 THEN width ELSE 1
                          ideal == IF "idealTide" \in DOMAIN in.spot
                                   THEN FromInt(in.spot.idealTide)
                                   ELSE Rat(in.spot.minTide + in.spot.maxTide, 2)
                          tnorm == RatDiv(RatSub(FromInt(in.tide), ideal), Rat(r, 2))
                      IN  RatMax0(RatSub(One, RatMul(tnorm, tnorm)))
            ELSE One
    IN  [windScore |-> windScore, dirScore |-> dirScore, periodScore |-> periodScore,
         sizeScore |-> sizeScore, tideScore |-> tideScore]

additiveReasons(c) ==
    (IF RatLt(Rat(6, 10), c.windScore) THEN <<"offshore or light winds">>
     ELSE IF RatLt(c.windScore, Rat(2, 10)) THEN <<"onshore/strong winds">>
     ELSE << >>)
    \o (IF RatLt(Rat(6, 10), c.dirScore) THEN <<"favourable swell direction">>
        ELSE <<"swell direction not ideal">>)
    \o (IF RatLt(Rat(6, 10), c.periodScore) THEN <<"good period">> ELSE << >>)
    \o (IF RatLt(Rat(8, 10), c.sizeScore) THEN <<"solid size">> ELSE << >>)

scoreForecastAdditive(in) ==
    Bind(additiveScores(in), LAMBDA c :
        LET raw        == RatAdd(RatAdd(RatMul(Rat(35, 100), c.windScore),
                                        RatMul(Rat(35, 100), c.dirScore)),
                                 RatAdd(RatMul(Rat(20, 100), c.periodScore),
                                        RatMul(Rat(10, 100), c.sizeScore)))
            finalScore == RatMul(raw, RatAdd(Rat(4, 10), RatMul(Rat(6, 10), c.tideScore)))
        IN  [score      |-> Rat(MathRound(RatMul(finalScore, FromInt(100))), 10),
             components |-> c,
             reasons    |-> additiveReasons(c)])

(***************************************************************************)
(* JavaScript numbers as they are: IEEE 754 binary64 with round to nearest *)
(* even.  A finite number is [s, m, e] and stands for s * m * 2^e, where   *)
(* the significand m has exactly 53 bits (zero is m = 0, e = 0, s = 1).  A *)
(* significand is a natural number of any size, held as the sequence of    *)
(* its digits in base 2^15, lowest first, without leading zero digits.     *)
(***************************************************************************)
LimbBits == 15

Limb == 32768

Precision == 53

\* `const u = a, v = b; return F(u, v)`.
Bind2(a, b, F(_, _)) == CHOOSE r \in {F(u, v) : u \in {a}, v \in {b}} : TRUE

RECURSIVE BigOf(_)
BigOf(n) == IF n = 0 THEN << >> ELSE <<n % Limb>> \o BigOf(n \div Limb)

RECURSIVE TrimLen(_, _)
TrimLen(a, n) == IF n = 0 \/ a[n] # 0 THEN n ELSE TrimLen(a, n - 1)

BigTrim(a) == Bind(a, LAMBDA u : SubSeq(u, 1, TrimLen(u, Len(u))))

RECURSIVE AddFrom(_, _, _, _)
AddFrom(a, b, i, carry) ==
    IF i > Len(a) /\ i > Len(b) THEN (IF carry = 0 THEN << >> ELSE <<carry>>)
    ELSE LET t == (IF i <= Len(a) THEN a[i] ELSE 0) + (IF i <= Len(b) THEN b[i] ELSE 0) + carry
         IN  <<t % Limb>> \o AddFrom(a, b, i + 1, t \div Limb)

BigAdd(a, b) == Bind2(a, b, LAMBDA u, v : AddFrom(u, v, 1, 0))

\* a - b for a >= b
RECURSIVE SubFrom(_, _, _, _)
SubFrom(a, b, i, borrow) ==
    IF i > Len(a) THEN << >>
    ELSE LET t == a[i] - (IF i <= Len(b) THEN b[i] ELSE 0) - borrow
         IN  <<(t + Limb) % Limb>> \o SubFrom(a, b, i + 1, IF t < 0 THEN 1 ELSE 0)

BigSub(a, b) == Bind2(a, b, LAMBDA u, v : BigTrim(SubFrom(u, v, 1, 0)))

RECURSIVE CmpFrom(_, _, _)
CmpFrom(a, b, i) ==
    IF i = 0 THEN 0
    ELSE IF a[i] # b[i] THEN (IF a[i] < b[i] THEN -1 ELSE 1)
    ELSE CmpFrom(a, b, i - 1)

\* -1, 0 or 1 as a is below, equal to or above b
BigCmp(a, b) ==
    Bind2(a, b, LAMBDA u, v :
        IF Len(u) # Len(v) THEN (IF Len(u) < Len(v) THEN -1 ELSE 1)
        ELSE CmpFrom(u, v, Len(u)))

\* a * c for a digit c
RECURSIVE MulSmallFrom(_, _, _, _)
MulSmallFrom(a, c, i, carry) ==
    IF i > Len(a) THEN (IF carry = 0 THEN << >> ELSE <<carry>>)
    ELSE LET t == a[i] * c + carry
         IN  <<t % Limb>> \o MulSmallFrom(a, c, i + 1, t \div Limb)

BigMulSmall(a, c) ==
    Bind2(a, c, LAMBDA u, d : IF d = 0 THEN << >> ELSE MulSmallFrom(u, d, 1, 0))

\* a * Limb^q
ShiftLimbs(a, q) ==
    Bind(a, LAMBDA u : IF u = << >> THEN u ELSE [i \in 1..q |-> 0] \o u)

RECURSIVE MulFrom(_, _, _)
MulFrom(a, b, k) ==
    IF k > Len(b) THEN << >>
    ELSE BigAdd(BigMulSmall(a, b[k]), ShiftLimbs(MulFrom(a, b, k + 1), 1))

BigMul(a, b) == Bind2(a, b, LAMBDA u, v : MulFrom(u, v, 1))

\* floor(a / c) for a digit c > 0
RECURSIVE DivSmallFrom(_, _, _, _)
DivSmallFrom(a, c, i, r) ==
    IF i = 0 THEN << >>
    ELSE LET cur == r * Limb + a[i]
         IN  DivSmallFrom(a, c, i - 1, cur % c) \o <<cur \div c>>

BigDivSmall(a, c) ==
    Bind2(a, c, LAMBDA u, d : BigTrim(DivSmallFrom(u, d, Len(u), 0)))

\* a * 2^k and floor(a / 2^k)
BigShl(a, k) == ShiftLimbs(BigMulSmall(a, Pow2(k % LimbBits)), k \div LimbBits)

BigShr(a, k) ==
    Bind2(a, k, LAMBDA u, n :
        IF n \div LimbBits >= Len(u) THEN << >>
        ELSE BigDivSmall(SubSeq(u, n \div LimbBits + 1, Len(u)), Pow2(n % LimbBits)))

RECURSIVE Bits(_)
Bits(n) == IF n = 0 THEN 0 ELSE 1 + Bits(n \div 2)

BitLen(a) ==
    Bind(a, LAMBDA u : IF u = << >> THEN 0 ELSE (Len(u) - 1) * LimbBits + Bits(u[Len(u)]))

BitAt(a, i) == (a[i \div LimbBits + 1] \div Pow2(i % LimbBits)) % 2

\* One step of the long division by b: the next bit of the dividend is
\* brought down to the remainder.
DivStep(s, bit, b) ==
    Bind(BigAdd(BigMulSmall(s.rem, 2), BigOf(bit)), LAMBDA r2 :
        IF BigCmp(r2, b) >= 0
        THEN [rem |-> BigSub(r2, b), q |-> BigAdd(BigMulSmall(s.q, 2), <<1>>)]
        ELSE [rem |-> r2, q |-> BigMulSmall(s.q, 2)])

\* The bits i down to lo of the dividend, one step each.
RECURSIVE DivBits(_, _, _, _, _)
DivBits(a, b, i, lo, s) ==
    IF i < lo THEN s
    ELSE Bind(DivStep(s, BitAt(a, i), b), LAMBDA t : DivBits(a, b, i - 1, lo, t))

\* The digits k down to 1 of the dividend, highest first.
RECURSIVE DivLoop(_, _, _, _)
DivLoop(a, b, k, s) ==
    IF k = 0 THEN s
    ELSE Bind(DivBits(a, b, k * LimbBits - 1, (k - 1) * LimbBits, s),
              LAMBDA t : DivLoop(a, b, k - 1, t))

\* [q |-> floor(a / b), rem |-> a mod b]
BigDivMod(a, b) ==
    Bind2(a, b, LAMBDA u, v : DivLoop(u, v, Len(u), [rem |-> << >>, q |-> << >>]))

F64Zero == [s |-> 1, m |-> << >>, e |-> 0]

\* The number nearest to s * (n + f) * 2^e, ties to even, where 0 < f < 1
\* if sticky and f = 0 otherwise (with sticky, n has more than 54 bits).
F64Round(s, n, e, sticky) ==
    Bind2(n, BitLen(n), LAMBDA u, len :
        IF u = << >> THEN F64Zero
        ELSE IF len <= Precision
        THEN [s |-> s, m |-> BigShl(u, Precision - len), e |-> e - (Precision - len)]
        ELSE Bind(BigShr(u, len - Precision), LAMBDA q :
             Bind(BigCmp(BigSub(u, BigShl(q, len - Precision)),
                         BigShl(<<1>>, len - Precision - 1)), LAMBDA c :
             Bind(IF c > 0 \/ (c = 0 /\ (sticky \/ q[1] % 2 = 1))
                  THEN BigAdd(q, <<1>>) ELSE q, LAMBDA q1 :
                 IF BitLen(q1) > Precision
                 THEN [s |-> s, m |-> BigShr(q1, 1), e |-> e + len - Precision + 1]
                 ELSE [s |-> s, m |-> q1, e |-> e + len - Precision]))))

\* The number an integer literal k denotes.
F64Of(k) == F64Round(IF k < 0 THEN -1 ELSE 1, BigOf(Abs(k)), 0, FALSE)

F64Neg(a) == Bind(a, LAMBDA u : IF u.m = << >> THEN u ELSE [u EXCEPT !.s = -u.s])

\* a + b
F64Add(a, b) ==
    Bind2(a, b, LAMBDA u, v :
        IF u.m = << >> THEN v
        ELSE IF v.m = << >> THEN u
        ELSE Bind2(BigShl(u.m, u.e - Min(u.e, v.e)), BigShl(v.m, v.e - Min(u.e, v.e)),
                   LAMBDA p, q :
                 IF u.s = v.s THEN F64Round(u.s, BigAdd(p, q), Min(u.e, v.e), FALSE)
                 ELSE IF BigCmp(p, q) >= 0
                 THEN F64Round(u.s, BigSub(p, q), Min(u.e, v.e), FALSE)
                 ELSE F64Round(v.s, BigSub(q, p), Min(u.e, v.e), FALSE)))

\* a - b
F64Sub(a, b) == F64Add(a, F64Neg(b))

\* a * b
F64Mul(a, b) ==
    Bind2(a, b, LAMBDA u, v :
        IF u.m = << >> \/ v.m = << >> THEN F64Zero
        ELSE F64Round(u.s * v.s, BigMul(u.m, v.m), u.e + v.e, FALSE))

\* a / b for b # 0
F64Div(a, b) ==
    Bind2(a, b, LAMBDA u, v :
        IF u.m = << >> THEN F64Zero
        ELSE Bind(BigDivMod(BigShl(u.m, Precision + 3), v.m), LAMBDA d :
                 F64Round(u.s * v.s, d.q, u.e - v.e - (Precision + 3), d.rem # << >>)))

\* a < b
F64Lt(a, b) == Bind(F64Sub(a, b), LAMBDA d : d.m # << >> /\ d.s = -1)

\* Math.max(a, b) and Math.min(a, b)
F64Max(a, b) == Bind2(a, b, LAMBDA u, v : IF F64Lt(u, v) THEN v ELSE u)

F64Min(a, b) == Bind2(a, b, LAMBDA u, v : IF F64Lt(v, u) THEN v ELSE u)

\* The number a decimal literal or JSON number with one decimal, k / 10,
\* denotes: the binary64 number nearest to it.
F64Tenths(k) == F64Div(F64Of(k), F64Of(10))

\* lerp and clamp01 of rating.ts on JavaScript numbers
lerp64(a, b, t) == F64Add(a, F64Mul(F64Sub(b, a), t))

clamp0164(v) == F64Max(F64Of(0), F64Min(F64Of(1), v))

\* tideQuality of rating.ts on JavaScript numbers; tide levels are in 0.1 m.
tideQuality64(tide, spot) ==
    IF IsNull(tide) \/ "minTide" \notin DOMAIN spot \/ "maxTide" \notin DOMAIN spot
    THEN F64Of(1)
    ELSE Bind2(F64Tenths(spot.minTide), F64Tenths(spot.maxTide), LAMBDA lo, hi :
         Bind(F64Tenths(tide[1]), LAMBDA t :
             IF F64Lt(t, lo) \/ F64Lt(hi, t) THEN F64Of(0)
             ELSE Bind2(F64Sub(hi, lo),
                        IF "idealTide" \in DOMAIN spot THEN F64Tenths(spot.idealTide)
                        ELSE lerp64(lo, hi, F64Tenths(5)),
                        LAMBDA w, ideal :
                  Bind(F64Div(F64Sub(t, ideal),
                              F64Div(IF w = F64Zero THEN F64Tenths(1) ELSE w, F64Of(2))),
                       LAMBDA tnorm :
                           clamp0164(F64Sub(F64Of(1), F64Mul(tnorm, tnorm)))))))

\* Variant of additiveTideScore64 that does not cut the parabola off at 0.
additiveTideScore64Uncut(in) ==
    IF "tide" \notin DOMAIN in \/ "minTide" \notin DOMAIN in.spot \/ "maxTide" \notin DOMAIN in.spot
    THEN F64Of(1)
    ELSE Bind2(F64Tenths(in.spot.minTide), F64Tenths(in.spot.maxTide), LAMBDA lo, hi :
         Bind(F64Tenths(in.tide), LAMBDA t :
             IF F64Lt(t, lo) \/ F64Lt(hi, t) THEN F64Of(0)
             ELSE Bind2(F64Sub(hi, lo),
                        IF "idealTide" \in DOMAIN in.spot THEN F64Tenths(in.spot.idealTide)
                        ELSE F64Div(F64Add(lo, hi), F64Of(2)),
                        LAMBDA r, ideal :
                  Bind(F64Div(F64Sub(t, ideal),
                              F64Div(IF r = F64Zero THEN F64Tenths(1) ELSE r, F64Of(2))),
                       LAMBDA tnorm :
                           F64Sub(F64Of(1), F64Mul(tnorm, tnorm))))))

\* The tide score of the older scoreForecast on JavaScript numbers.
additiveTideScore64(in) ==
    IF "tide" \notin DOMAIN in \/ "minTide" \notin DOMAIN in.spot \/ "maxTide" \notin DOMAIN in.spot
    THEN F64Of(1)
    ELSE Bind2(F64Tenths(in.spot.minTide), F64Tenths(in.spot.maxTide), LAMBDA lo, hi :
         Bind(F64Tenths(in.tide), LAMBDA t :
             IF F64Lt(t, lo) \/ F64Lt(hi, t) THEN F64Of(0)
             ELSE Bind2(F64Sub(hi, lo),
                        IF "idealTide" \in DOMAIN in.spot THEN F64Tenths(in.spot.idealTide)
                        ELSE F64Div(F64Add(lo, hi), F64Of(2)),
                        LAMBDA r, ideal :
                  Bind(F64Div(F64Sub(t, ideal),
                              F64Div(IF r = F64Zero THEN F64Tenths(1) ELSE r, F64Of(2))),
                       LAMBDA tnorm :
                           F64Max(F64Of(0), F64Sub(F64Of(1), F64Mul(tnorm, tnorm)))))))

(***************************************************************************)
(* The two revisions side by side: a caller holds an input record and      *)
(* calls the legacy wrapper of rating.ts or the older additive function.   *)
(***************************************************************************)
ScoreForecastAdditive ==
    /\ op' = "scoreForecastAdditive"
    /\ ret' = scoreForecastAdditive(x)
    /\ UNCHANGED <<x, weights, comps, req, upstream, calls, card>>

NextLegacy == ScoreForecast \/ ScoreForecastAdditive

\* Profiles with a tide window and no ideal tide whose midpoint is not a
\* binary fraction: 0.1 to 0.5 m and -0.5 to 0.3 m.
MidpointSpots ==
    { [id |-> "low", coastBearing |-> Deg(0), breakType |-> "point",
       swellDirMin |-> Deg(350), swellDirMax |-> Deg(20),
       minTide |-> 1, maxTide |-> 5],
      [id |-> "ebb", coastBearing |-> Deg(0), breakType |-> "point",
       swellDirMin |-> Deg(350), swellDirMax |-> Deg(20),
       minTide |-> -5, maxTide |-> 3] }

MidpointInputs == {[tide |-> t] @@ Sample(s) : t \in TideLevels, s \in MidpointSpots}

InitLegacy ==
    /\ x \in Inputs \cup MidpointInputs
    /\ weights \in WeightProfiles
    /\ comps = << >>
    /\ op = "none"
    /\ ret = << >>
    /\ req = << >>
    /\ upstream = << >>
    /\ calls = << >>
    /\ Unmounted

SpecLegacy == InitLegacy /\ [][NextLegacy]_vars

\* Every degree value of the input lies in [0, 360) and hs, tp and wind are
\* not negative.
WellFormed(in) ==
    /\ \A a \in {in.dp, in.windDir, in.spot.coastBearing,
                 in.spot.swellDirMin, in.spot.swellDirMax} : InRange(a)
    /\ in.hs >= 0 /\ in.tp >= 0 /\ in.wind >= 0

\* The tide is scored against a window whose ideal level is left to the
\* default, the middle of the window.
MidpointDefault(in) ==
    /\ "tide" \in DOMAIN in /\ "minTide" \in DOMAIN in.spot /\ "maxTide" \in DOMAIN in.spot
    /\ "idealTide" \notin DOMAIN in.spot
    /\ in.tide >= in.spot.minTide /\ in.tide <= in.spot.maxTide

SummaryScores ==
    [i \in 1..Min(SummaryHours, Len(ret.body.hours)) |->
        ret.body.hours[i].aggregate[1].score_0_10]

\* C27: in every successful response, when a weight profile was supplied
\* and at least one hour is returned, aggregate_min and aggregate_max are
\* the least and the greatest score_0_10 of the first 24 hours, with
\* 0 <= aggregate_min <= aggregate_max <= 10; when no profile was supplied
\* or no hour is returned they are the sentinels 10 and 0.
C27_TodaySummary ==
    (Handled /\ ret.status = 200) =>
        LET s == ret.body.today_summary
        IN  IF weights # << >> /\ ret.body.hours # << >>
            THEN /\ \A i \in DOMAIN SummaryScores :
                        /\ ~IsNaN(SummaryScores[i])
                        /\ RatLeq(s.aggregate_min, SummaryScores[i])
                        /\ RatLeq(SummaryScores[i], s.aggregate_max)
                 /\ \E i \in DOMAIN SummaryScores : s.aggregate_min = SummaryScores[i]
                 /\ \E i \in DOMAIN SummaryScores : s.aggregate_max = SummaryScores[i]
                 /\ ~IsNaN(s.aggregate_min) /\ ~IsNaN(s.aggregate_max)
                 /\ RatLeq(Zero, s.aggregate_min)
                 /\ RatLeq(s.aggregate_min, s.aggregate_max)
                 /\ RatLeq(s.aggregate_max, FromInt(10))
            ELSE s.aggregate_min = FromInt(10) /\ s.aggregate_max = Zero

\* The same statement for profiles whose values are all numbers.
C27_TodaySummaryNumeric ==
    (weights # << >> /\ \E k \in DOMAIN weights[1] : weights[1][k] = NotANumber)
        \/ C27_TodaySummary

\* A response to a request with a profile, for more than 24 hours, whose
\* later hours score above and below everything the summary reports.
C27_Probe ==
    /\ Handled /\ ret.status = 200
    /\ weights # << >>
    /\ Len(ret.body.hours) > SummaryHours
    /\ \E i \in DOMAIN ret.body.hours :
           RatLt(ret.body.today_summary.aggregate_max,
                 ret.body.hours[i].aggregate[1].score_0_10)
    /\ \E i \in DOMAIN ret.body.hours :
           RatLt(ret.body.hours[i].aggregate[1].score_0_10,
                 ret.body.today_summary.aggregate_min)

\* C23 over both revisions (under SpecLegacy): in the result of the legacy
\* wrapper of rating.ts and of the older additive scoreForecast alike, a
\* wind, dir or period score of exactly 0.6 and a size score of exactly 0.8
\* come with the positive reason of their axis, and a wind, period or size
\* score of exactly 0.2 comes with the negative reason of its axis.
C23_InclusiveInBothRevisions ==
    op \in {"scoreForecast", "scoreForecastAdditive"} =>
        LET c        == ret.components
            Stated(r) == \E i \in DOMAIN ret.reasons : ret.reasons[i] = r
        IN  /\ c.windScore = Rat(6, 10) => Stated("offshore or light winds")
            /\ c.dirScore = Rat(6, 10) => Stated("favourable swell direction")
            /\ c.periodScore = Rat(6, 10) => Stated("good period")
            /\ c.sizeScore = Rat(8, 10) => Stated("solid size")
            /\ c.windScore = Rat(2, 10) => Stated("onshore/strong winds")
            /\ c.periodScore = Rat(2, 10) => Stated("short/weak period")
            /\ c.sizeScore = Rat(2, 10) => Stated("small surf")

(***************************************************************************)
(* RadarCard.tsx: the forecast effect.  Every change of selectedSpot runs  *)
(* the cleanup of the previous effect (cancelled = true) and then the      *)
(* effect again, in the same task as the change; a request completes in a  *)
(* later task, whatever has happened in between.                           *)
(***************************************************************************)
\* At most MaxEffects runs of the effect are followed.
MaxEffects == 4

\* A payload holds between 0 and MaxHours hours.
MaxHours == 2

CardSpots == {spots[i].id : i \in DOMAIN spots}

\* The payload of /api/forecast?spot_id=spot with h hours, as answered to
\* the n-th run of the effect.
ApiPayload(spot, h, n) == [spot |-> [id |-> spot], hours |-> h, reply |-> n]

\* What a failed request throws: Error(`HTTP ${res.status}`), or whatever
\* fetch or res.json() reject with, which need not carry a message.
Thrown == {<<"HTTP 400">>, <<"HTTP 502">>, <<"Failed to fetch">>, <<"">>, << >>}

\* Variant of live that never looks at the flag.
liveAlways(effect) == TRUE

\* if (!cancelled)
live(effect) == ~effect.cancelled

\* return () => { cancelled = true; } of the effect that ran last.
cleanup(es) == [es EXCEPT ![Len(es)].cancelled = TRUE]

\* The component after mounting: the defaults of useState, and the first
\* run of the effect has set loading and error and sent its request.
InitCard ==
    /\ selectedSpot = "trigg"
    /\ data = << >>
    /\ idx = 0
    /\ loading = TRUE
    /\ error = << >>
    /\ effects = <<[spot |-> "trigg", cancelled |-> FALSE, pending |-> TRUE]>>
    /\ op = "none"
    /\ ret = << >>
    /\ x = << >>
    /\ weights = << >>
    /\ comps = << >>
    /\ req = << >>
    /\ upstream = << >>
    /\ calls = << >>

\* onChange of the spot selector: setSelectedSpot(e.target.value), then the
\* cleanup of the previous effect and the next run of the effect up to its
\* await (setLoading(true), setError(null), fetch).
Select ==
    \E spot \in CardSpots \ {selectedSpot} :
        /\ Len(effects) < MaxEffects
        /\ selectedSpot' = spot
        /\ effects' = Append(cleanup(effects),
                             [spot |-> spot, cancelled |-> FALSE, pending |-> TRUE])
        /\ loading' = TRUE
        /\ error' = << >>
        /\ op' = "select"
        /\ ret' = << >>
        /\ UNCHANGED <<data, idx, x, weights, comps, req, upstream, calls>>

\* The request of the n-th run is answered OK and its body parses.
Succeed ==
    \E n \in DOMAIN effects, h \in 0..MaxHours :
        /\ effects[n].pending
        /\ effects' = [effects EXCEPT ![n].pending = FALSE]
        /\ IF live(effects[n])
           THEN /\ data' = <<ApiPayload(effects[n].spot, h, n)>>
                /\ idx' = 0
                /\ loading' = FALSE
           ELSE UNCHANGED <<data, idx, loading>>
        /\ op' = "succeed"
        /\ ret' = effects[n]
        /\ UNCHANGED <<selectedSpot, error, x, weights, comps, req, upstream, calls>>

\* The request of the n-th run fails: fetch rejects, the status is not OK
\* or the body does not parse.
Fail ==
    \E n \in DOMAIN effects, e \in Thrown :
        /\ effects[n].pending
        /\ effects' = [effects EXCEPT ![n].pending = FALSE]
        /\ IF live(effects[n])
           THEN /\ error' = <<Coalesce(e, "Failed to load forecast")>>
                /\ loading' = FALSE
           ELSE UNCHANGED <<error, loading>>
        /\ op' = "fail"
        /\ ret' = effects[n]
        /\ UNCHANGED <<selectedSpot, data, idx, x, weights, comps, req, upstream, calls>>

\* The timeline and the previous / next buttons: setIdx on an hour of data.
SetIdx ==
    \E i \in 0..MaxHours :
        /\ data # << >>
        /\ i < data[1].hours
        /\ i # idx
        /\ idx' = i
        /\ op' = "setIdx"
        /\ ret' = << >>
        /\ UNCHANGED <<selectedSpot, data, loading, error, effects,
                       x, weights, comps, req, upstream, calls>>

NextCard == Select \/ Succeed \/ Fail \/ SetIdx

SpecCard == InitCard /\ [][NextCard]_vars

(***************************************************************************)
(* Properties of RadarCard (checked under SpecCard)                        *)
(***************************************************************************)
Completed == op \in {"succeed", "fail"}

\* The completion of a superseded request leaves data, idx, error and
\* loading as they are.
SupersededIsIgnored ==
    (Completed' /\ ret'.cancelled) => UNCHANGED <<data, idx, error, loading>>

\* The payload of a request that was not superseded resets idx to 0.
ArrivalResetsIdx ==
    (op' = "succeed" /\ ~ret'.cancelled) => (idx' = 0 /\ data'[1].reply = Len(effects'))

\* Once a request has completed, loading = false and error = null mean that
\* data is the payload answered to the request for the selected spot.
SettledShowsSelected ==
    (Len(effects) > 0 /\ ~loading /\ error = << >>) =>
        /\ data # << >>
        /\ data[1].spot.id = selectedSpot
        /\ data[1].reply = Len(effects)

\* C28: when the selected spot changes while a forecast request is in
\* flight, the completion (success or failure) of the superseded request
\* never changes data, idx, error or loading; whenever loading is false and
\* error is null after a request completed, data is the payload of the
\* request for the currently selected spot, and idx was reset to 0 when that
\* payload arrived, under every interleaving of selections and responses.
C28_SupersededRequests ==
    /\ []SettledShowsSelected
    /\ [][SupersededIsIgnored /\ ArrivalResetsIdx]_vars

\* A superseded request has succeeded after the request for the spot
\* selected now had been answered: the card is settled on the selected spot
\* and the late payload was for another spot.
C28_Witness ==
    /\ op = "succeed"
    /\ ret.cancelled
    /\ ret.spot # selectedSpot
    /\ ~loading /\ error = << >>
    /\ data # << >> /\ data[1].spot.id = selectedSpot

=============================================================================
